---- MODULE Spec2Model ----
(***************************************************************************)
(* MHBench, MulVAL fact exporter (src/src/mulval/mulval_exporter.py).      *)
(*                                                                         *)
(* emit_mulval_facts walks a NetworkTopology and returns the text of a     *)
(* MulVAL input.P file.  A Python str is modelled as a sequence of         *)
(* one-character strings, so that quoting, namespacing, f-string           *)
(* formatting, sorting and joining are computed character by character.    *)
(* The exporter is a state machine with one action per numbered step of    *)
(* the function body; the topology is the (immutable) input chosen by      *)
(* Init.                                                                   *)
(***************************************************************************)
EXTENDS Integers, Sequences, FiniteSets, TLC

VARIABLES
    topology,              \* the argument of emit_mulval_facts
    pc,                    \* position in the body of emit_mulval_facts
    facts,                 \* facts: List[str]
    vuln_properties_seen,  \* Set[Tuple[str, str, str]]
    warnings,              \* warnings: List[str]
    subnet_hosts,          \* dict: subnet name -> list of Host
    external_subnets,      \* list of Subnet
    conn_i,                \* index of the next SubnetConnection of step 4c
    document,              \* the returned string, None before the return
    call                   \* one call of a helper function: fn, args, ret

vars == <<topology, pc, facts, vuln_properties_seen, warnings, subnet_hosts,
          external_subnets, conn_i, document, call>>

(***************************************************************************)
(* Characters and strings.                                                 *)
(***************************************************************************)
\* The printable ASCII characters in code-point order, 32 to 126 (a TLA+
\* string cannot hold the character 96, which is spelled out).
Ascii ==
    <<" ", "!", "\"", "#", "$", "%", "&", "'", "(", ")", "*", "+", ",", "-",
      ".", "/", "0", "1", "2", "3", "4", "5", "6", "7", "8", "9", ":", ";",
      "<", "=", ">", "?", "@", "A", "B", "C", "D", "E", "F", "G", "H", "I",
      "J", "K", "L", "M", "N", "O", "P", "Q", "R", "S", "T", "U", "V", "W",
      "X", "Y", "Z", "[", "\\", "]", "^", "_", "backquote", "a", "b", "c", "d", "e",
      "f", "g", "h", "i", "j", "k", "l", "m", "n", "o", "p", "q", "r", "s",
      "t", "u", "v", "w", "x", "y", "z", "{", "|", "}", "~">>

\* ord(c) of Python, for the printable ASCII characters.
Ord(c) == 31 + (CHOOSE i \in 1..Len(Ascii) : Ascii[i] = c)

\* str.islower(), str.isdigit() and str.isalnum() of one ASCII character.
LowerChars == {Ascii[i] : i \in (Ord("a") - 31)..(Ord("z") - 31)}
UpperChars == {Ascii[i] : i \in (Ord("A") - 31)..(Ord("Z") - 31)}
DigitChars == {Ascii[i] : i \in (Ord("0") - 31)..(Ord("9") - 31)}
islower(c) == c \in LowerChars
isalnum(c) == c \in LowerChars \cup UpperChars \cup DigitChars

\* Python's None where a str is expected, and an attribute that is not set.
None == <<"None">>
Absent == <<"Absent">>
\* Python's None where an object (a Host) is expected.
NoneHost == [is_none |-> TRUE]

\* bool(s) of a str or None: None and the empty string are falsy.
Truthy(s) == s # None /\ s # <<>>

RECURSIVE ConcatAll(_)
\* The concatenation of a sequence of sequences: the lines a nested loop
\* appends, in iteration order.
ConcatAll(ss) == IF ss = <<>> THEN <<>> ELSE Head(ss) \o ConcatAll(Tail(ss))

RECURSIVE IntToStr(_)
\* str(n) of a natural number, as an f-string formats the port.
IntToStr(n) ==
    IF n < 10 THEN <<Ascii[Ord("0") - 31 + n]>>
    ELSE IntToStr(n \div 10) \o <<Ascii[Ord("0") - 31 + (n % 10)]>>

\* s < t of two Python strings: code-point lexicographic order.
RECURSIVE StrLess(_, _)
StrLess(s, t) ==
    IF t = <<>> THEN FALSE
    ELSE IF s = <<>> THEN TRUE
    ELSE IF Head(s) # Head(t) THEN Ord(Head(s)) < Ord(Head(t))
    ELSE StrLess(Tail(s), Tail(t))

\* a < b of two Python tuples of three strings.
TupleLess(a, b) ==
    \/ StrLess(a[1], b[1])
    \/ a[1] = b[1] /\ StrLess(a[2], b[2])
    \/ a[1] = b[1] /\ a[2] = b[2] /\ StrLess(a[3], b[3])

RECURSIVE sorted_descending(_)
\* Faulty variant of sorted: the largest tuple first.
sorted_descending(S) ==
    IF S = {} THEN <<>>
    ELSE LET m == CHOOSE x \in S : \A y \in S \ {x} : TupleLess(y, x)
         IN  <<m>> \o sorted_descending(S \ {m})

\* Faulty variant of sorted: the tuples in the iteration order of the set,
\* which is one order in the first call and another in the second.
iteration_order(S) ==
    IF call.fn = "none" THEN sorted_descending(S)
    ELSE [i \in 1..Cardinality(S) |->
             sorted_descending(S)[Cardinality(S) + 1 - i]]

RECURSIVE sorted(_)
\* sorted(S) of a set of tuples of three strings.
sorted(S) ==
    IF S = {} THEN <<>>
    ELSE LET m == CHOOSE x \in S : \A y \in S \ {x} : TupleLess(x, y)
         IN  <<m>> \o sorted(S \ {m})

RECURSIVE join(_, _)
\* sep.join(lines)
join(sep, lines) ==
    IF lines = <<>> THEN <<>>
    ELSE IF Len(lines) = 1 THEN lines[1]
    ELSE lines[1] \o sep \o join(sep, Tail(lines))

(***************************************************************************)
(* String constants of the exporter and of the topologies.                 *)
(***************************************************************************)
\* "root"
root == <<"r", "o", "o", "t">>
\* "'CVE-2017-5638'"
CVE_2017_5638 ==
    <<"'", "C", "V", "E", "-", "2", "0", "1", "7", "-", "5", "6", "3", "8",
      "'">>
\* "httpd"
httpd == <<"h", "t", "t", "p", "d">>
\* "netcatBackdoor"
netcatBackdoor ==
    <<"n", "e", "t", "c", "a", "t", "B", "a", "c", "k", "d", "o", "o", "r">>
\* "netcat"
netcat == <<"n", "e", "t", "c", "a", "t">>
\* "sshKeyMisconfig"
sshKeyMisconfig ==
    <<"s", "s", "h", "K", "e", "y", "M", "i", "s", "c", "o", "n", "f", "i",
      "g">>
\* "sshd"
sshd == <<"s", "s", "h", "d">>
\* "'CVE-2021-3156'"
CVE_2021_3156 ==
    <<"'", "C", "V", "E", "-", "2", "0", "2", "1", "-", "3", "1", "5", "6",
      "'">>
\* "sudo"
sudo == <<"s", "u", "d", "o">>
\* "writeablePasswd"
writeablePasswd ==
    <<"w", "r", "i", "t", "e", "a", "b", "l", "e", "P", "a", "s", "s", "w",
      "d">>
\* "kernel"
kernel == <<"k", "e", "r", "n", "e", "l">>
\* "attackGoal(execCode("
attackGoal_open ==
    <<"a", "t", "t", "a", "c", "k", "G", "o", "a", "l", "(", "e", "x", "e",
      "c", "C", "o", "d", "e", "(">>
\* ", "
comma_space == <<",", " ">>
\* "))."
close_close_dot == <<")", ")", ".">>
\* "hasAccount("
hasAccount_open == <<"h", "a", "s", "A", "c", "c", "o", "u", "n", "t", "(">>
\* ")."
close_dot == <<")", ".">>
\* "hacl("
hacl_open == <<"h", "a", "c", "l", "(">>
\* ", _, _)."
wildcards_close_dot == <<",", " ", "_", ",", " ", "_", ")", ".">>
\* "internet"
internet == <<"i", "n", "t", "e", "r", "n", "e", "t">>
\* "/* "
comment_open == <<"/", "*", " ">>
\* " */"
comment_close == <<" ", "*", "/">>
\* "vulExists("
vulExists_open == <<"v", "u", "l", "E", "x", "i", "s", "t", "s", "(">>
\* "networkServiceInfo("
networkServiceInfo_open ==
    <<"n", "e", "t", "w", "o", "r", "k", "S", "e", "r", "v", "i", "c", "e",
      "I", "n", "f", "o", "(">>
\* "vulProperty("
vulProperty_open ==
    <<"v", "u", "l", "P", "r", "o", "p", "e", "r", "t", "y", "(">>
\* "unknown"
unknown == <<"u", "n", "k", "n", "o", "w", "n">>
\* "web_0"
web_0 == <<"w", "e", "b", "_", "0">>
\* "db_0"
db_0 == <<"d", "b", "_", "0">>
\* "app_1"
app_1 == <<"a", "p", "p", "_", "1">>
\* "Db-1"
Db_1 == <<"D", "b", "-", "1">>
\* "web_2"
web_2 == <<"w", "e", "b", "_", "2">>
\* "db_2"
db_2 == <<"d", "b", "_", "2">>
\* "host_"
host_prefix == <<"h", "o", "s", "t", "_">>
\* "id-"
id_prefix == <<"i", "d", "-">>
\* "admin"
admin == <<"a", "d", "m", "i", "n">>
\* "admin_web"
admin_web == <<"a", "d", "m", "i", "n", "_", "w", "e", "b">>
\* "user_0"
user_0 == <<"u", "s", "e", "r", "_", "0">>
\* "tomcat"
tomcat == <<"t", "o", "m", "c", "a", "t">>
\* "db"
db == <<"d", "b">>
\* "web_db"
web_db == <<"w", "e", "b", "_", "d", "b">>
\* "db0"
db0 == <<"d", "b", "0">>
\* "user_0_db"
user_0_db == <<"u", "s", "e", "r", "_", "0", "_", "d", "b">>
\* "user_0_web_0"
user_0_web_0 == <<"u", "s", "e", "r", "_", "0", "_", "w", "e", "b", "_", "0">>

(***************************************************************************)
(* The vulnerability lookup table.                                         *)
(***************************************************************************)
\* "remoteExploit"
remoteExploit ==
    <<"r", "e", "m", "o", "t", "e", "E", "x", "p", "l", "o", "i", "t">>
\* "localExploit"
localExploit == <<"l", "o", "c", "a", "l", "E", "x", "p", "l", "o", "i", "t">>
\* "privEscalation"
privEscalation ==
    <<"p", "r", "i", "v", "E", "s", "c", "a", "l", "a", "t", "i", "o", "n">>
\* "tcp"
tcp == <<"t", "c", "p">>

VULN_LOOKUP ==
    [p \in {"vulnerabilities/apacheStruts/setupStruts.yml",
            "vulnerabilities/NetcatShell.yml",
            "deployment_instance/setup_server_ssh_keys/setup_ssh_keys.yml",
            "vulnerabilities/privledge_escalation/sudobaron/sudobaron.yml",
            "vulnerabilities/privledge_escalation/writeablePasswd/writeablePasswd.yml"} |->
        CASE p = "vulnerabilities/apacheStruts/setupStruts.yml" ->
                [vuln_id |-> CVE_2017_5638,
                 program |-> httpd, range |-> remoteExploit,
                 consequence |-> privEscalation, protocol |-> tcp, port |-> 8080]
          [] p = "vulnerabilities/NetcatShell.yml" ->
                [vuln_id |-> netcatBackdoor,
                 program |-> netcat, range |-> remoteExploit,
                 consequence |-> privEscalation, protocol |-> tcp, port |-> 4444]
          [] p = "deployment_instance/setup_server_ssh_keys/setup_ssh_keys.yml" ->
                [vuln_id |-> sshKeyMisconfig,
                 program |-> sshd, range |-> remoteExploit,
                 consequence |-> privEscalation, protocol |-> tcp, port |-> 22]
          [] p = "vulnerabilities/privledge_escalation/sudobaron/sudobaron.yml" ->
                [vuln_id |-> CVE_2021_3156,
                 program |-> sudo, range |-> localExploit,
                 consequence |-> privEscalation, protocol |-> None, port |-> None]
          [] OTHER ->
                [vuln_id |-> writeablePasswd,
                 program |-> kernel, range |-> localExploit,
                 consequence |-> privEscalation, protocol |-> None, port |-> None]]

\* dict.get(key) and dict.get(key, default)
DictGet(d, k, default) == IF k \in DOMAIN d THEN d[k] ELSE default

(***************************************************************************)
(* Helpers of the exporter.                                                *)
(***************************************************************************)
\* Faulty variant of _prolog_atom: a name that starts and ends with a quote
\* is taken to be quoted already and returned as it is.
_prolog_atom_keep_quoted(name) ==
    IF name = <<>> THEN <<"'", "'">>
    ELSE IF Len(name) >= 2 /\ name[1] = "'" /\ name[Len(name)] = "'" THEN name
    ELSE IF islower(name[1]) /\ \A k \in 1..Len(name) : isalnum(name[k]) \/ name[k] = "_"
         THEN name
         ELSE <<"'">> \o name \o <<"'">>

\* Faulty variant of _prolog_atom: the first character is not looked at.
_prolog_atom_any_first(name) ==
    IF name = <<>> THEN <<"'", "'">>
    ELSE IF \A i \in 1..Len(name) : isalnum(name[i]) \/ name[i] = "_"
         THEN name
         ELSE <<"'">> \o name \o <<"'">>

_prolog_atom(name) ==
    IF name = <<>> THEN <<"'", "'">>
    ELSE IF /\ islower(name[1])
            /\ \A i \in 1..Len(name) : isalnum(name[i]) \/ name[i] = "_"
         THEN name
         ELSE <<"'">> \o name \o <<"'">>

\* Faulty variant of _namespace_username: the host name is not appended.
_namespace_username_bare(username, host_name) == username

\* Faulty variant of _namespace_username: the underscore between the two
\* names is missing.
_namespace_username_no_separator(username, host_name) ==
    IF username = root THEN root ELSE username \o host_name

_namespace_username(username, host_name) ==
    IF username = root THEN root ELSE username \o <<"_">> \o host_name

\* The subnets of a topology in the order of the loops
\* "for network in topology.networks: for subnet in network.subnets".
Subnets(t) ==
    ConcatAll([n \in 1..Len(t.networks) |-> t.networks[n].subnets])

\* The hosts in the order of the triple loop over networks, subnets, hosts.
Hosts(t) ==
    ConcatAll([s \in 1..Len(Subnets(t)) |-> Subnets(t)[s].hosts])

\* A later subnet of the same name overwrites the entry of an earlier one.
_build_subnet_host_map(t) ==
    [nm \in {Subnets(t)[s].name : s \in 1..Len(Subnets(t))} |->
        LET last == CHOOSE s \in 1..Len(Subnets(t)) :
                        /\ Subnets(t)[s].name = nm
                        /\ \A r \in (s + 1)..Len(Subnets(t)) : Subnets(t)[r].name # nm
        IN  Subnets(t)[last].hosts]

IsExternal(subnet) == subnet.external

\* Faulty variant of _get_external_subnets: every subnet is external.
_get_external_subnets_all(t) == Subnets(t)

_get_external_subnets(t) == SelectSeq(Subnets(t), IsExternal)

\* NetworkTopology.get_host_by_id as the exporter's test double implements it:
\* the first host with the identifier, else the attacker host, else None.
get_host_by_id(t, host_id) ==
    IF \E i \in 1..Len(Hosts(t)) : Hosts(t)[i].id = host_id
    THEN Hosts(t)[CHOOSE i \in 1..Len(Hosts(t)) :
                     /\ Hosts(t)[i].id = host_id
                     /\ \A j \in 1..(i - 1) : Hosts(t)[j].id # host_id]
    ELSE IF t.attacker_host # NoneHost /\ t.attacker_host.id = host_id
         THEN t.attacker_host
         ELSE NoneHost

(***************************************************************************)
(* The f-strings of emit_mulval_facts, one operator per fact format.       *)
(***************************************************************************)
AttackGoalLine(host_atom, user_atom) ==
    attackGoal_open \o host_atom \o comma_space \o user_atom \o close_close_dot

HasAccountLine(user_atom, host_atom, perm) ==
    hasAccount_open \o user_atom \o comma_space \o host_atom \o comma_space \o perm \o close_dot

HaclLine(a, b) ==
    hacl_open \o a \o comma_space \o b \o wildcards_close_dot

InternetHaclLine(h) ==
    hacl_open \o internet \o comma_space \o h \o wildcards_close_dot

HostCommentLine(host_name) ==
    comment_open \o host_name \o comment_close

VulExistsLine(host_atom, vuln_id, program) ==
    vulExists_open \o host_atom \o comma_space \o vuln_id \o comma_space \o program \o close_dot

NetworkServiceInfoLine(host_atom, program, protocol, port, svc_user_atom) ==
    networkServiceInfo_open \o host_atom \o comma_space \o program \o comma_space
        \o protocol \o comma_space \o IntToStr(port) \o comma_space \o svc_user_atom \o close_dot

VulPropertyLine(vuln_id, range_, consequence) ==
    vulProperty_open \o vuln_id \o comma_space \o range_ \o comma_space \o consequence \o close_dot

\* "/* Attacker location */"
AttackerHeader ==
    <<"/", "*", " ", "A", "t", "t", "a", "c", "k", "e", "r", " ", "l", "o",
      "c", "a", "t", "i", "o", "n", " ", "*", "/">>
\* "attackerLocated(internet)."
AttackerLocatedLine ==
    <<"a", "t", "t", "a", "c", "k", "e", "r", "L", "o", "c", "a", "t", "e",
      "d", "(", "i", "n", "t", "e", "r", "n", "e", "t", ")", ".">>
\* "/* Attack goals */"
GoalsHeader ==
    <<"/", "*", " ", "A", "t", "t", "a", "c", "k", " ", "g", "o", "a", "l",
      "s", " ", "*", "/">>
\* "/* User accounts */"
AccountsHeader ==
    <<"/", "*", " ", "U", "s", "e", "r", " ", "a", "c", "c", "o", "u", "n",
      "t", "s", " ", "*", "/">>
\* "/* Network reachability */"
ReachabilityHeader ==
    <<"/", "*", " ", "N", "e", "t", "w", "o", "r", "k", " ", "r", "e", "a",
      "c", "h", "a", "b", "i", "l", "i", "t", "y", " ", "*", "/">>
\* "/* Vulnerabilities and services */"
VulnerabilitiesHeader ==
    <<"/", "*", " ", "V", "u", "l", "n", "e", "r", "a", "b", "i", "l", "i",
      "t", "i", "e", "s", " ", "a", "n", "d", " ", "s", "e", "r", "v", "i",
      "c", "e", "s", " ", "*", "/">>
\* "/* Vulnerability properties (deduplicated) */"
VulnPropertiesHeader ==
    <<"/", "*", " ", "V", "u", "l", "n", "e", "r", "a", "b", "i", "l", "i",
      "t", "y", " ", "p", "r", "o", "p", "e", "r", "t", "i", "e", "s", " ",
      "(", "d", "e", "d", "u", "p", "l", "i", "c", "a", "t", "e", "d", ")",
      " ", "*", "/">>
BlankLine == <<>>
\* "root"
PermRoot == <<"r", "o", "o", "t">>
\* "user"
PermUser == <<"u", "s", "e", "r">>

(***************************************************************************)
(* The loops of emit_mulval_facts: the lines each one appends.             *)
(***************************************************************************)
\* getattr(goal, 'host_user', None)
GetHostUser(goal) == IF goal.host_user = Absent THEN None ELSE goal.host_user

\* Step 2, one iteration of "for goal in topology.goals".
GoalLines(t, goal) ==
    LET target_host == get_host_by_id(t, goal.target_host_id)
        target_username == IF GetHostUser(goal) = None THEN root
                           ELSE GetHostUser(goal)
    IN  IF target_host = NoneHost THEN <<>>
        ELSE LET namespaced_user == _namespace_username(target_username,
                                                        target_host.name)
                 host_atom == _prolog_atom(target_host.name)
                 user_atom == _prolog_atom(namespaced_user)
             IN  <<AttackGoalLine(host_atom, user_atom)>>

GoalWarnings(t, goal) ==
    IF get_host_by_id(t, goal.target_host_id) = NoneHost
    THEN << <<"Goal references unknown host ID: ", goal.target_host_id>> >>
    ELSE <<>>

\* Faulty variant of AccountLines: user.is_admin is not looked at.
AccountLines_all_user(host) ==
    [u \in 1..Len(host.users) |->
        HasAccountLine(
            _prolog_atom(_namespace_username(host.users[u].username, host.name)),
            _prolog_atom(host.name), PermUser)]

\* Step 3, one iteration of "for host in subnet.hosts".
AccountLines(host) ==
    LET host_atom == _prolog_atom(host.name)
    IN  [u \in 1..Len(host.users) |->
            LET user == host.users[u]
                namespaced == _namespace_username(user.username, host.name)
                user_atom == _prolog_atom(namespaced)
                perm == IF user.is_admin THEN PermRoot ELSE PermUser
            IN  HasAccountLine(user_atom, host_atom, perm)]

\* Faulty variant of SelfLine: the host name is emitted as it is.
SelfLine_raw(host) == HaclLine(host.name, host.name)

\* Step 4a, one iteration of "for host in subnet.hosts".
SelfLine(host) ==
    LET h == _prolog_atom(host.name) IN HaclLine(h, h)

\* Faulty variant of IntraSubnetLines: the test i != j is missing.
IntraSubnetLines_with_self(subnet) ==
    LET hosts == subnet.hosts
    IN  ConcatAll([i \in 1..Len(hosts) |->
            [j \in 1..Len(hosts) |->
                HaclLine(_prolog_atom(hosts[i].name),
                         _prolog_atom(hosts[j].name))]])

\* Step 4b, one iteration of "for subnet in network.subnets".
IntraSubnetLines(subnet) ==
    LET hosts == subnet.hosts
    IN  ConcatAll([i \in 1..Len(hosts) |->
            ConcatAll([j \in 1..Len(hosts) |->
                IF i # j
                THEN <<HaclLine(_prolog_atom(hosts[i].name),
                                _prolog_atom(hosts[j].name))>>
                ELSE <<>>])])

\* The cross product "for x in xs: for y in ys: hacl(x, y)".
CrossLines(xs, ys) ==
    ConcatAll([i \in 1..Len(xs) |->
        [j \in 1..Len(ys) |->
            HaclLine(_prolog_atom(xs[i].name), _prolog_atom(ys[j].name))]])

\* Faulty variant of ConnectionLines: conn.bidirectional is not looked at.
ConnectionLines_both_ways(index, conn) ==
    LET from_hosts == DictGet(index, conn.from_subnet, <<>>)
        to_hosts == DictGet(index, conn.to_subnet, <<>>)
    IN  CrossLines(from_hosts, to_hosts) \o CrossLines(to_hosts, from_hosts)

\* Faulty variant of ConnectionLines: a subnet name that is not in the map
\* resolves to the hosts of some subnet instead of the empty list.
ConnectionLines_unknown_is_any(index, conn) ==
    LET any == IF DOMAIN index = {} THEN <<>>
               ELSE index[CHOOSE k \in DOMAIN index : TRUE]
        from_hosts == DictGet(index, conn.from_subnet, any)
        to_hosts == DictGet(index, conn.to_subnet, any)
    IN  CrossLines(from_hosts, to_hosts)
        \o (IF conn.bidirectional THEN CrossLines(to_hosts, from_hosts)
            ELSE <<>>)

\* Faulty variant of ConnectionLines: the reverse cross product of a
\* bidirectional connection is appended before the forward one.
ConnectionLines_reverse_first(index, conn) ==
    LET from_hosts == DictGet(index, conn.from_subnet, <<>>)
        to_hosts == DictGet(index, conn.to_subnet, <<>>)
    IN  (IF conn.bidirectional THEN CrossLines(to_hosts, from_hosts)
         ELSE <<>>)
        \o CrossLines(from_hosts, to_hosts)

\* Step 4c, one iteration of "for conn in topology.subnet_connections".
ConnectionLines(index, conn) ==
    LET from_hosts == DictGet(index, conn.from_subnet, <<>>)
        to_hosts == DictGet(index, conn.to_subnet, <<>>)
    IN  CrossLines(from_hosts, to_hosts)
        \o (IF conn.bidirectional THEN CrossLines(to_hosts, from_hosts)
            ELSE <<>>)

\* Faulty variant of InternetLines: source and destination are swapped.
InternetLines_swapped(subnet) ==
    [h \in 1..Len(subnet.hosts) |->
        HaclLine(_prolog_atom(subnet.hosts[h].name), internet)]

\* Step 4d, one iteration of "for subnet in external_subnets".
InternetLines(subnet) ==
    [h \in 1..Len(subnet.hosts) |->
        InternetHaclLine(_prolog_atom(subnet.hosts[h].name))]

\* Faulty variant of VulnLines: the vulProperty fact is emitted with every
\* vulExists fact instead of once in step 6.
VulnLines_inline_property(host, vuln) ==
    IF vuln.playbook_path \notin DOMAIN VULN_LOOKUP THEN <<>>
    ELSE LET mapping == VULN_LOOKUP[vuln.playbook_path]
         IN  <<VulExistsLine(_prolog_atom(host.name), mapping.vuln_id,
                             mapping.program),
               VulPropertyLine(mapping.vuln_id, mapping.range,
                               mapping.consequence)>>

\* Faulty variant of VulnLines: a vulnerability the catalog does not know
\* is emitted under a placeholder identifier instead of being skipped.
VulnLines_placeholder(host, vuln) ==
    IF vuln.playbook_path \notin DOMAIN VULN_LOOKUP
    THEN <<VulExistsLine(_prolog_atom(host.name), unknown, unknown)>>
    ELSE <<VulExistsLine(_prolog_atom(host.name),
                         VULN_LOOKUP[vuln.playbook_path].vuln_id,
                         VULN_LOOKUP[vuln.playbook_path].program)>>

\* Faulty variant of VulnLines: vuln.to_user is used as it is, without the
\* fallback to root.
VulnLines_no_fallback(host, vuln) ==
    IF vuln.playbook_path \notin DOMAIN VULN_LOOKUP THEN <<>>
    ELSE LET mapping == VULN_LOOKUP[vuln.playbook_path]
             host_atom == _prolog_atom(host.name)
         IN  <<VulExistsLine(host_atom, mapping.vuln_id, mapping.program)>>
             \o (IF mapping.range = remoteExploit
                 THEN <<NetworkServiceInfoLine(host_atom, mapping.program,
                           mapping.protocol, mapping.port,
                           _prolog_atom(_namespace_username(vuln.to_user,
                                                            host.name)))>>
                 ELSE <<>>)

\* Step 5, one iteration of "for vuln in host.vulnerabilities".
VulnLines(host, vuln) ==
    IF vuln.playbook_path \notin DOMAIN VULN_LOOKUP THEN <<>>
    ELSE LET mapping == VULN_LOOKUP[vuln.playbook_path]
             host_atom == _prolog_atom(host.name)
         IN  <<VulExistsLine(host_atom, mapping.vuln_id, mapping.program)>>
             \o (IF mapping.range = remoteExploit
                 THEN LET service_user == IF Truthy(vuln.to_user)
                                          THEN vuln.to_user ELSE root
                          namespaced_svc_user ==
                              _namespace_username(service_user, host.name)
                          svc_user_atom == _prolog_atom(namespaced_svc_user)
                      IN  <<NetworkServiceInfoLine(host_atom, mapping.program,
                                mapping.protocol, mapping.port, svc_user_atom)>>
                 ELSE <<>>)

VulnWarnings(host, vuln) ==
    IF vuln.playbook_path \notin DOMAIN VULN_LOOKUP
    THEN << <<"No MulVAL mapping for playbook: ", vuln.playbook_path,
              " (on host ", host.name, "). Skipping.">> >>
    ELSE <<>>

VulnProperties(vuln) ==
    IF vuln.playbook_path \in DOMAIN VULN_LOOKUP
    THEN LET mapping == VULN_LOOKUP[vuln.playbook_path]
         IN  {<<mapping.vuln_id, mapping.range, mapping.consequence>>}
    ELSE {}

\* Faulty variant of HostVulnLines: the loop over the vulnerabilities of the
\* host ends at the first one the catalog does not know instead of going on.
HostVulnLines_break(host) ==
    IF host.vulnerabilities = <<>> THEN <<>>
    ELSE LET stop == CHOOSE k \in 1..(Len(host.vulnerabilities) + 1) :
                        /\ \A v \in 1..(k - 1) :
                              host.vulnerabilities[v].playbook_path
                                  \in DOMAIN VULN_LOOKUP
                        /\ k <= Len(host.vulnerabilities) =>
                              host.vulnerabilities[k].playbook_path
                                  \notin DOMAIN VULN_LOOKUP
         IN  <<HostCommentLine(host.name)>>
             \o ConcatAll([v \in 1..(stop - 1) |->
                              VulnLines(host, host.vulnerabilities[v])])

\* Step 5, one iteration of "for host in subnet.hosts".
HostVulnLines(host) ==
    IF host.vulnerabilities = <<>> THEN <<>>
    ELSE <<HostCommentLine(host.name)>>
         \o ConcatAll([v \in 1..Len(host.vulnerabilities) |->
                          VulnLines(host, host.vulnerabilities[v])])

HostVulnWarnings(host) ==
    ConcatAll([v \in 1..Len(host.vulnerabilities) |->
                  VulnWarnings(host, host.vulnerabilities[v])])

HostVulnProperties(host) ==
    UNION {VulnProperties(host.vulnerabilities[v]) :
              v \in 1..Len(host.vulnerabilities)}

\* Step 6, the loop over sorted(vuln_properties_seen).
VulnPropertyLines(seen) ==
    [k \in 1..Cardinality(seen) |->
        VulPropertyLine(sorted(seen)[k][1], sorted(seen)[k][2], sorted(seen)[k][3])]

(***************************************************************************)
(* emit_mulval_facts, one action per step of the function body.            *)
(***************************************************************************)
NoCall == [fn |-> "none", args |-> <<>>, ret |-> None]

\* Lines 191-199: the locals and the two lookup structures.
Enter ==
    /\ pc = "start"
    /\ facts' = <<>>
    /\ vuln_properties_seen' = {}
    /\ warnings' = <<>>
    /\ subnet_hosts' = _build_subnet_host_map(topology)
    /\ external_subnets' = _get_external_subnets(topology)
    /\ pc' = "step1"
    /\ UNCHANGED <<topology, conn_i, document, call>>

Step1_AttackerLocation ==
    /\ pc = "step1"
    /\ facts' = facts \o <<AttackerHeader, AttackerLocatedLine, BlankLine>>
    /\ pc' = "step2"
    /\ UNCHANGED <<topology, vuln_properties_seen, warnings, subnet_hosts,
                   external_subnets, conn_i, document, call>>

Step2_Goals ==
    /\ pc = "step2"
    /\ facts' = facts \o <<GoalsHeader>>
                \o ConcatAll([g \in 1..Len(topology.goals) |->
                                 GoalLines(topology, topology.goals[g])])
                \o <<BlankLine>>
    /\ warnings' = warnings
                \o ConcatAll([g \in 1..Len(topology.goals) |->
                                 GoalWarnings(topology, topology.goals[g])])
    /\ pc' = "step3"
    /\ UNCHANGED <<topology, vuln_properties_seen, subnet_hosts,
                   external_subnets, conn_i, document, call>>

\* Faulty variant of Step3_Accounts: the blank line that closes the section
\* is not appended.
Step3_Accounts_no_blank ==
    /\ pc = "step3"
    /\ facts' = facts \o <<AccountsHeader>>
                \o ConcatAll([h \in 1..Len(Hosts(topology)) |->
                                 AccountLines(Hosts(topology)[h])])
    /\ pc' = "step4a"
    /\ UNCHANGED <<topology, vuln_properties_seen, warnings, subnet_hosts,
                   external_subnets, conn_i, document, call>>

Step3_Accounts ==
    /\ pc = "step3"
    /\ facts' = facts \o <<AccountsHeader>>
                \o ConcatAll([h \in 1..Len(Hosts(topology)) |->
                                 AccountLines(Hosts(topology)[h])])
                \o <<BlankLine>>
    /\ pc' = "step4a"
    /\ UNCHANGED <<topology, vuln_properties_seen, warnings, subnet_hosts,
                   external_subnets, conn_i, document, call>>

Step4a_SelfReachability ==
    /\ pc = "step4a"
    /\ facts' = facts \o <<ReachabilityHeader>>
                \o [h \in 1..Len(Hosts(topology)) |-> SelfLine(Hosts(topology)[h])]
    /\ pc' = "step4b"
    /\ UNCHANGED <<topology, vuln_properties_seen, warnings, subnet_hosts,
                   external_subnets, conn_i, document, call>>

Step4b_IntraSubnet ==
    /\ pc = "step4b"
    /\ facts' = facts
                \o ConcatAll([s \in 1..Len(Subnets(topology)) |->
                                 IntraSubnetLines(Subnets(topology)[s])])
    /\ conn_i' = 1
    /\ pc' = "step4c"
    /\ UNCHANGED <<topology, vuln_properties_seen, warnings, subnet_hosts,
                   external_subnets, document, call>>

\* Faulty variant of Step4c_CrossSubnet: the connection processed is popped
\* from topology.subnet_connections.
Step4c_CrossSubnet_consuming ==
    /\ pc = "step4c"
    /\ topology.subnet_connections # <<>>
    /\ facts' = facts
                \o ConnectionLines(subnet_hosts,
                                   Head(topology.subnet_connections))
    /\ topology' = [topology EXCEPT !.subnet_connections = Tail(@)]
    /\ UNCHANGED <<pc, vuln_properties_seen, warnings, subnet_hosts,
                   external_subnets, conn_i, document, call>>

\* One iteration of the loop over topology.subnet_connections.
Step4c_CrossSubnet ==
    /\ pc = "step4c"
    /\ conn_i <= Len(topology.subnet_connections)
    /\ facts' = facts
                \o ConnectionLines(subnet_hosts,
                                   topology.subnet_connections[conn_i])
    /\ conn_i' = conn_i + 1
    /\ UNCHANGED <<topology, pc, vuln_properties_seen, warnings, subnet_hosts,
                   external_subnets, document, call>>

\* The loop over the connections is exhausted: step 4d and the blank line.
Step4d_Internet ==
    /\ pc = "step4c"
    /\ conn_i > Len(topology.subnet_connections)
    /\ facts' = facts
                \o ConcatAll([s \in 1..Len(external_subnets) |->
                                 InternetLines(external_subnets[s])])
                \o <<BlankLine>>
    /\ pc' = "step5"
    /\ UNCHANGED <<topology, vuln_properties_seen, warnings, subnet_hosts,
                   external_subnets, conn_i, document, call>>

Step5_Vulnerabilities ==
    /\ pc = "step5"
    /\ facts' = facts \o <<VulnerabilitiesHeader>>
                \o ConcatAll([h \in 1..Len(Hosts(topology)) |->
                                 HostVulnLines(Hosts(topology)[h])])
                \o <<BlankLine>>
    /\ warnings' = warnings
                \o ConcatAll([h \in 1..Len(Hosts(topology)) |->
                                 HostVulnWarnings(Hosts(topology)[h])])
    /\ vuln_properties_seen' = vuln_properties_seen
                \cup UNION {HostVulnProperties(Hosts(topology)[h]) :
                               h \in 1..Len(Hosts(topology))}
    /\ pc' = "step6"
    /\ UNCHANGED <<topology, subnet_hosts, external_subnets, conn_i,
                   document, call>>

Step6_VulnProperties ==
    /\ pc = "step6"
    /\ facts' = facts \o <<VulnPropertiesHeader>>
                \o VulnPropertyLines(vuln_properties_seen)
                \o <<BlankLine>>
    /\ pc' = "return"
    /\ UNCHANGED <<topology, vuln_properties_seen, warnings, subnet_hosts,
                   external_subnets, conn_i, document, call>>

\* Lines 386-393: the warnings go to stderr, the joined lines are returned.
Return ==
    /\ pc = "return"
    /\ document' = join(<<"\n">>, facts)
    /\ pc' = "done"
    /\ UNCHANGED <<topology, facts, vuln_properties_seen, warnings,
                   subnet_hosts, external_subnets, conn_i, call>>

Next ==
    \/ Enter
    \/ Step1_AttackerLocation
    \/ Step2_Goals
    \/ Step3_Accounts
    \/ Step4a_SelfReachability
    \/ Step4b_IntraSubnet
    \/ Step4c_CrossSubnet
    \/ Step4d_Internet
    \/ Step5_Vulnerabilities
    \/ Step6_VulnProperties
    \/ Return

(***************************************************************************)
(* The topologies.  Subnet names are unique, host names and identifiers    *)
(* are unique, and a host belongs to one subnet (the data model).  The     *)
(* name of a host is never the reserved atom "internet" of the attacker's  *)
(* pseudo-host.                                                            *)
(***************************************************************************)
MaxHosts == 3   \* hosts of a topology of ReachTopologies
MaxConns == 1   \* subnet connections of a topology of ReachTopologies

HostNames ==
    <<web_0, db_0, app_1, Db_1, web_2, db_2>>

\* The k-th host name and host identifier.
HostName(k) ==
    IF k <= Len(HostNames) THEN HostNames[k] ELSE host_prefix \o IntToStr(k)
HostId(k) == id_prefix \o IntToStr(k)

BareHost(k) ==
    [id |-> HostId(k), name |-> HostName(k), users |-> <<>>,
     vulnerabilities |-> <<>>]

\* "s9" names no subnet of any topology.
ConnNames == {"s1", "s2", "s9"}
Connections ==
    [from_subnet : ConnNames, to_subnet : ConnNames, bidirectional : BOOLEAN]

SeqsUpTo(S, n) == UNION {[1..k -> S] : k \in 0..n}

\* Two subnets holding n1 and n2 hosts, in one network or in two.
ReachTopology(n1, n2, e1, e2, two_networks, conns) ==
    LET s1 == [name |-> "s1", external |-> e1,
               hosts |-> [k \in 1..n1 |-> BareHost(k)]]
        s2 == [name |-> "s2", external |-> e2,
               hosts |-> [k \in 1..n2 |-> BareHost(n1 + k)]]
    IN  [networks |-> IF two_networks
                      THEN <<[name |-> "net1", subnets |-> <<s1>>],
                             [name |-> "net2", subnets |-> <<s2>>]>>
                      ELSE <<[name |-> "net1", subnets |-> <<s1, s2>>]>>,
         subnet_connections |-> conns,
         goals |-> <<>>,
         attacker_host |-> NoneHost]

InitLocals ==
    /\ pc = "start"
    /\ facts = <<>>
    /\ vuln_properties_seen = {}
    /\ warnings = <<>>
    /\ subnet_hosts = <<>>
    /\ external_subnets = <<>>
    /\ conn_i = 0
    /\ document = None
    /\ call = NoCall

InitReach ==
    /\ \E n1 \in 0..MaxHosts :
       \E n2 \in 0..(MaxHosts - n1) :
       \E e1 \in BOOLEAN, e2 \in BOOLEAN, tn \in BOOLEAN :
       \E conns \in SeqsUpTo(Connections, MaxConns) :
           topology = ReachTopology(n1, n2, e1, e2, tn, conns)
    /\ InitLocals

SpecReach == InitReach /\ [][Next]_vars

(***************************************************************************)
(* Topologies that vary the vulnerabilities: web_0 in the external subnet  *)
(* "web", db_0 and app_1 in the subnet "db", a connection web -> db.       *)
(***************************************************************************)
MaxVulns == 3   \* vulnerabilities of a topology of the vulnerability family

\* The five playbooks of the catalog and one the catalog does not know.
PlaybookPaths == DOMAIN VULN_LOOKUP \cup {"vulnerabilities/unknown.yml"}

VulnHost(k, paths) ==
    [id |-> HostId(k), name |-> HostName(k), users |-> <<>>,
     vulnerabilities |->
        [v \in 1..Len(paths) |-> [playbook_path |-> paths[v], to_user |-> None]]]

\* The vulnerabilities paths[1..i] are on web_0, paths[i+1..j] on db_0 and
\* the others on app_1.
VulnTopology(paths, i, j) ==
    [networks |->
        <<[name |-> "net1",
           subnets |->
              <<[name |-> "web", external |-> TRUE,
                 hosts |-> <<VulnHost(1, SubSeq(paths, 1, i))>>],
                [name |-> "db", external |-> FALSE,
                 hosts |-> <<VulnHost(2, SubSeq(paths, i + 1, j)),
                             VulnHost(3, SubSeq(paths, j + 1, Len(paths)))>>]>>]>>,
     subnet_connections |->
        <<[from_subnet |-> "web", to_subnet |-> "db", bidirectional |-> FALSE]>>,
     goals |-> <<>>,
     attacker_host |-> NoneHost]

InitVulns ==
    /\ \E paths \in SeqsUpTo(PlaybookPaths, MaxVulns) :
       \E j \in 0..Len(paths) :
       \E i \in 0..j :
           topology = VulnTopology(paths, i, j)
    /\ InitLocals

SpecVulns == InitVulns /\ [][Next]_vars

Init == InitReach \/ InitVulns

Spec == Init /\ [][Next]_vars

(***************************************************************************)
(* Calls of the two helper functions on their own.                         *)
(***************************************************************************)
MaxNameLen == 3   \* characters of an argument of _prolog_atom

\* A lowercase letter, an uppercase letter, a digit, the underscore, a
\* character that is none of them, and the quote.
NameChars == {"a", "B", "0", "_", "-", "'"}

EmptyTopology ==
    [networks |-> <<>>, subnet_connections |-> <<>>, goals |-> <<>>,
     attacker_host |-> NoneHost]

InitCall(fn, args) ==
    /\ call = [fn |-> fn, args |-> args, ret |-> None]
    /\ topology = EmptyTopology
    /\ pc = "call"
    /\ facts = <<>>
    /\ vuln_properties_seen = {}
    /\ warnings = <<>>
    /\ subnet_hosts = <<>>
    /\ external_subnets = <<>>
    /\ conn_i = 0
    /\ document = None

\* ret = _prolog_atom(name)
Call_prolog_atom ==
    /\ pc = "call"
    /\ call.fn = "_prolog_atom"
    /\ call' = [call EXCEPT !.ret = _prolog_atom(call.args[1])]
    /\ pc' = "returned"
    /\ UNCHANGED <<topology, facts, vuln_properties_seen, warnings,
                   subnet_hosts, external_subnets, conn_i, document>>

InitAtom ==
    \E name \in SeqsUpTo(NameChars, MaxNameLen) : InitCall("_prolog_atom", <<name>>)

NextAtom == Call_prolog_atom

SpecAtom == InitAtom /\ [][NextAtom]_vars

\* The usernames and host names of the calls of _namespace_username.
NsUsernames ==
    {root, admin, admin_web, user_0, tomcat, <<>>}
NsHostNames ==
    {db, web_db, web_0, db_0}

\* The calls for two accounts, (u1, h1) and (u2, h2):
\* ret = <<_namespace_username(u1, h1), _namespace_username(u2, h2)>>
Call_namespace_username ==
    /\ pc = "call"
    /\ call.fn = "_namespace_username"
    /\ call' = [call EXCEPT !.ret =
                   <<_namespace_username(call.args[1], call.args[2]),
                     _namespace_username(call.args[3], call.args[4])>>]
    /\ pc' = "returned"
    /\ UNCHANGED <<topology, facts, vuln_properties_seen, warnings,
                   subnet_hosts, external_subnets, conn_i, document>>

InitNamespace ==
    \E u1 \in NsUsernames, u2 \in NsUsernames :
    \E h1 \in NsHostNames, h2 \in NsHostNames :
        InitCall("_namespace_username", <<u1, h1, u2, h2>>)

NextNamespace == Call_namespace_username

SpecNamespace == InitNamespace /\ [][NextNamespace]_vars

(***************************************************************************)
(* Scenario topologies: the external subnet "web" with web_0, the subnet   *)
(* "db" with db_0, users on both hosts, goals, vulnerabilities with and    *)
(* without to_user, and connections that may name a subnet that does not   *)
(* exist.  After the export the caller may call emit_mulval_facts a second *)
(* time: on the same topology, on the topology without the goals and       *)
(* vulnerabilities that cause a warning, or on the topology without the    *)
(* connections that name an unknown subnet.                                *)
(***************************************************************************)
MaxItems == 2   \* goals plus vulnerabilities of a scenario topology

User(username, is_admin) == [username |-> username, is_admin |-> is_admin]

\* The users of web_0 and of db_0, and where the vulnerabilities go: all on
\* web_0, or the first on web_0 and the others on db_0.  The last two
\* layouts have no users and no hosts at all.
HostLayouts ==
    {[hosts |-> TRUE, web_users |-> <<User(tomcat, FALSE)>>,
      db_users |-> <<User(db0, FALSE)>>, on_web |-> MaxItems + 1],
     [hosts |-> TRUE,
      web_users |-> <<User(tomcat, FALSE), User(admin, TRUE),
                      User(root, TRUE)>>,
      db_users |-> <<>>, on_web |-> 1],
     [hosts |-> TRUE, web_users |-> <<>>, db_users |-> <<>>, on_web |-> 1],
     [hosts |-> FALSE, web_users |-> <<>>, db_users |-> <<>>, on_web |-> 0]}

\* Goals on db_0 and on web_0 with and without host_user, and a goal on a
\* host identifier that no host has.
GoalPool ==
    {[target_host_id |-> HostId(2), host_user |-> db0],
     [target_host_id |-> HostId(2), host_user |-> Absent],
     [target_host_id |-> HostId(1), host_user |-> None],
     [target_host_id |-> HostId(1), host_user |-> <<>>],
     [target_host_id |-> HostId(99), host_user |-> db0]}

\* Remote and local catalog entries, to_user set, None and empty, and a
\* playbook the catalog does not know.
VulnPool ==
    {[playbook_path |-> "vulnerabilities/apacheStruts/setupStruts.yml",
      to_user |-> None],
     [playbook_path |-> "vulnerabilities/apacheStruts/setupStruts.yml",
      to_user |-> tomcat],
     [playbook_path |-> "vulnerabilities/NetcatShell.yml", to_user |-> <<>>],
     [playbook_path |-> "vulnerabilities/privledge_escalation/sudobaron/sudobaron.yml",
      to_user |-> None],
     [playbook_path |-> "vulnerabilities/unknown.yml", to_user |-> None]}

\* "dmz" names no subnet of a scenario topology.
ConnLists ==
    {<<[from_subnet |-> "web", to_subnet |-> "db", bidirectional |-> FALSE]>>,
     <<[from_subnet |-> "web", to_subnet |-> "db", bidirectional |-> FALSE],
       [from_subnet |-> "web", to_subnet |-> "dmz", bidirectional |-> TRUE]>>,
     <<[from_subnet |-> "dmz", to_subnet |-> "db", bidirectional |-> TRUE],
       [from_subnet |-> "db", to_subnet |-> "web", bidirectional |-> TRUE]>>}

ScenarioHost(k, users, vulns) ==
    [id |-> HostId(k), name |-> HostName(k), users |-> users,
     vulnerabilities |-> vulns]

ScenarioTopology(layout, conns, goals, vulns) ==
    LET w == IF layout.on_web < Len(vulns) THEN layout.on_web ELSE Len(vulns)
        web_hosts == IF layout.hosts
                     THEN <<ScenarioHost(1, layout.web_users, SubSeq(vulns, 1, w))>>
                     ELSE <<>>
        db_hosts == IF layout.hosts
                    THEN <<ScenarioHost(2, layout.db_users,
                                        SubSeq(vulns, w + 1, Len(vulns)))>>
                    ELSE <<>>
    IN  [networks |->
            <<[name |-> "net1",
               subnets |-> <<[name |-> "web", external |-> TRUE,
                              hosts |-> web_hosts],
                             [name |-> "db", external |-> FALSE,
                              hosts |-> db_hosts]>>]>>,
         subnet_connections |-> conns,
         goals |-> goals,
         attacker_host |-> NoneHost]

InitScenario ==
    /\ \E n_goals \in 0..MaxItems :
       \E goals \in [1..n_goals -> GoalPool] :
       \E vulns \in SeqsUpTo(VulnPool, MaxItems - n_goals) :
       \E layout \in HostLayouts, conns \in ConnLists :
           topology = ScenarioTopology(layout, conns, goals, vulns)
    /\ InitLocals

\* The goal does not cause the warning of step 2.
GoalResolves(t, goal) == get_host_by_id(t, goal.target_host_id) # NoneHost

\* The vulnerability does not cause the warning of step 5.
IsMapped(vuln) == vuln.playbook_path \in DOMAIN VULN_LOOKUP

\* The connection names two subnets of the topology.
IsKnownConnection(t, conn) ==
    /\ conn.from_subnet \in DOMAIN _build_subnet_host_map(t)
    /\ conn.to_subnet \in DOMAIN _build_subnet_host_map(t)

\* The topology with the vulnerabilities of every host filtered.
WithMappedVulnerabilities(t) ==
    [t EXCEPT !.networks =
        [n \in DOMAIN t.networks |->
            [t.networks[n] EXCEPT !.subnets =
                [s \in DOMAIN t.networks[n].subnets |->
                    [t.networks[n].subnets[s] EXCEPT !.hosts =
                        [h \in DOMAIN t.networks[n].subnets[s].hosts |->
                            [t.networks[n].subnets[s].hosts[h] EXCEPT
                                !.vulnerabilities = SelectSeq(@, IsMapped)]]]]]]]

WithoutSoftErrors(t) ==
    LET Resolves(goal) == GoalResolves(t, goal)
    IN  [WithMappedVulnerabilities(t) EXCEPT
            !.goals = SelectSeq(t.goals, Resolves)]

WithoutUnknownConnections(t) ==
    LET Known(conn) == IsKnownConnection(t, conn)
    IN  [t EXCEPT !.subnet_connections = SelectSeq(t.subnet_connections, Known)]

\* The first call of emit_mulval_facts has returned.
FirstCallReturned == pc = "done" /\ call = NoCall

\* A second call of emit_mulval_facts, on the topology t; the topology, the
\* lines, the warnings and the document of the first call are kept in call.
Reinvoke(kind, t) ==
    /\ call' = [fn |-> kind, args |-> <<topology>>,
                ret |-> [facts |-> facts, warnings |-> warnings,
                         document |-> document]]
    /\ topology' = t
    /\ pc' = "start"
    /\ facts' = <<>>
    /\ vuln_properties_seen' = {}
    /\ warnings' = <<>>
    /\ subnet_hosts' = <<>>
    /\ external_subnets' = <<>>
    /\ conn_i' = 0
    /\ document' = None

InvokeAgain ==
    /\ FirstCallReturned
    /\ Reinvoke("again", topology)

InvokeWithoutSoftErrors ==
    /\ FirstCallReturned
    /\ Reinvoke("without_soft_errors", WithoutSoftErrors(topology))

InvokeWithoutUnknownConnections ==
    /\ FirstCallReturned
    /\ Reinvoke("without_unknown_connections",
                WithoutUnknownConnections(topology))

NextScenario ==
    \/ Next
    \/ InvokeAgain
    \/ InvokeWithoutSoftErrors
    \/ InvokeWithoutUnknownConnections

SpecScenario == InitScenario /\ [][NextScenario]_vars

(***************************************************************************)
(* Reading the output and the input, for the properties below.             *)
(***************************************************************************)
Done == pc = "done"

StartsWith(line, prefix) ==
    Len(line) >= Len(prefix) /\ SubSeq(line, 1, Len(prefix)) = prefix

EndsWith(line, suffix) ==
    /\ Len(line) >= Len(suffix)
    /\ SubSeq(line, Len(line) - Len(suffix) + 1, Len(line)) = suffix

\* The number of lines of the output equal to the given line.
Count(line) == Cardinality({i \in 1..Len(facts) : facts[i] = line})

FactSet == {facts[i] : i \in 1..Len(facts)}

IsHacl(line) == StartsWith(line, hacl_open)

\* The lines the step taken appends to facts.
Appended == {facts'[i] : i \in (Len(facts) + 1)..Len(facts')}

SubnetSet ==
    UNION {{topology.networks[n].subnets[s] :
               s \in DOMAIN topology.networks[n].subnets} :
           n \in DOMAIN topology.networks}

HostSetOf(subnet) == {subnet.hosts[k] : k \in DOMAIN subnet.hosts}

HostSet == UNION {HostSetOf(s) : s \in SubnetSet}

\* The hosts of the subnets of the given name (none for an unknown name).
HostsNamed(subnet_name) ==
    UNION {HostSetOf(s) : s \in {x \in SubnetSet : x.name = subnet_name}}

ConnectionSet ==
    {topology.subnet_connections[c] : c \in DOMAIN topology.subnet_connections}

Atom(host) == _prolog_atom(host.name)

(***************************************************************************)
(* C1.  Self-reachability: for every host H of the topology the returned   *)
(* document contains the fact hacl(H, H, _, _) exactly once, whatever the  *)
(* connections are (a connection from a subnet to itself included).        *)
(* The exporter violates it: step 4c emits hacl(H, H, _, _) again for      *)
(* every host of a subnet connected to itself.                             *)
(***************************************************************************)
C1_SelfReachableExactlyOnce ==
    Done => \A h \in HostSet : Count(HaclLine(Atom(h), Atom(h))) = 1

(***************************************************************************)
(* C2.  The hacl facts of the returned document are exactly the direct     *)
(* edges of the four rules: H->H for every host, A->B for every ordered    *)
(* pair of distinct hosts of one subnet, from-hosts x to-hosts (and the    *)
(* reverse when bidirectional) for every connection, internet->H for every *)
(* host of an external subnet.  Nothing derivable only transitively is     *)
(* emitted.                                                                *)
(***************************************************************************)
DirectEdges ==
    {HaclLine(Atom(h), Atom(h)) : h \in HostSet}
    \cup UNION {{HaclLine(Atom(x[1]), Atom(x[2])) :
                    x \in {y \in HostSetOf(s) \X HostSetOf(s) : y[1] # y[2]}} :
                s \in SubnetSet}
    \cup UNION {{HaclLine(Atom(x[1]), Atom(x[2])) :
                    x \in HostsNamed(c.from_subnet) \X HostsNamed(c.to_subnet)} :
                c \in ConnectionSet}
    \cup UNION {{HaclLine(Atom(x[1]), Atom(x[2])) :
                    x \in HostsNamed(c.to_subnet) \X HostsNamed(c.from_subnet)} :
                c \in {d \in ConnectionSet : d.bidirectional}}
    \cup UNION {{InternetHaclLine(Atom(h)) : h \in HostSetOf(s)} :
                s \in {x \in SubnetSet : x.external}}

C2_OnlyDirectEdges ==
    Done => {f \in FactSet : IsHacl(f)} = DirectEdges

\* internet reaches B, B reaches C, and no fact lets internet reach C.
C2_Witness ==
    /\ Done
    /\ \E b \in HostSet, c \in HostSet :
          /\ InternetHaclLine(Atom(b)) \in FactSet
          /\ HaclLine(Atom(b), Atom(c)) \in FactSet
          /\ InternetHaclLine(Atom(c)) \notin FactSet

(***************************************************************************)
(* C3.  For every subnet and every two distinct hosts A and B in it, both  *)
(* hacl(A, B, _, _) and hacl(B, A, _, _) are in the returned document, and *)
(* the intra-subnet step (4b) appends no fact hacl(H, H, _, _).            *)
(***************************************************************************)
IntraSubnetComplete ==
    \A s \in SubnetSet : \A a \in HostSetOf(s), b \in HostSetOf(s) :
        a # b => /\ HaclLine(Atom(a), Atom(b)) \in FactSet
                 /\ HaclLine(Atom(b), Atom(a)) \in FactSet

C3_IntraSubnetMesh ==
    [][/\ pc' = "done" => IntraSubnetComplete'
       /\ pc = "step4b" =>
             \A h \in HostSet : HaclLine(Atom(h), Atom(h)) \notin Appended]_vars

\* A subnet of two hosts, after the export.
C3_Witness ==
    /\ Done
    /\ \E s \in SubnetSet : Cardinality(HostSetOf(s)) >= 2

(***************************************************************************)
(* C4.  For a connection from S1 to S2 with bidirectional = false, the     *)
(* iteration of step 4c that processes it appends no hacl fact from a host *)
(* of S2 to a host of S1; and when S1 # S2 and no other connection links   *)
(* them, the returned document holds no hacl fact from a host of S2 to a   *)
(* host of S1.  The exporter violates the first part for a connection from *)
(* a subnet to itself: the forward cross product then runs between the     *)
(* hosts of the one subnet.                                                *)
(***************************************************************************)
ReverseEdges(c) ==
    {HaclLine(Atom(x[1]), Atom(x[2])) :
        x \in HostsNamed(c.to_subnet) \X HostsNamed(c.from_subnet)}

OnlyLink(c) ==
    /\ c.from_subnet # c.to_subnet
    /\ \A d \in ConnectionSet :
          d # c => {d.from_subnet, d.to_subnet} # {c.from_subnet, c.to_subnet}
    /\ Cardinality({i \in DOMAIN topology.subnet_connections :
                       topology.subnet_connections[i] = c}) = 1

C4_DirectionRespected ==
    [][/\ (pc = "step4c" /\ conn_i <= Len(topology.subnet_connections)) =>
             LET c == topology.subnet_connections[conn_i]
             IN  ~c.bidirectional => ReverseEdges(c) \cap Appended = {}
       /\ pc' = "done" =>
             \A c \in ConnectionSet :
                 (~c.bidirectional /\ OnlyLink(c)) =>
                     ReverseEdges(c) \cap FactSet' = {}]_vars

(***************************************************************************)
(* C5.  For every host H of an external subnet the returned document holds *)
(* hacl(internet, H, _, _), and it holds no fact hacl(_, internet, _, _):  *)
(* the internet pseudo-host is never a destination.                        *)
(***************************************************************************)
IsHaclToInternet(line) ==
    IsHacl(line) /\ EndsWith(line, comma_space \o internet \o wildcards_close_dot)

Returned(fn) == pc = "returned" /\ call.fn = fn

C6_NamespacingIdentity ==
    Returned("_namespace_username") =>
        LET u1 == call.args[1]
            h1 == call.args[2]
            u2 == call.args[3]
            h2 == call.args[4]
        IN  /\ u1 = root => call.ret[1] = root
            /\ u1 # root => call.ret[1] = u1 \o <<"_">> \o h1
            /\ u2 = root => call.ret[2] = root
            /\ u2 # root => call.ret[2] = u2 \o <<"_">> \o h2
            /\ (u1 = u2 /\ u1 # root /\ h1 # h2) => call.ret[1] # call.ret[2]

\* user_0 on db and user_0 on web_0.
C6_Witness ==
    /\ Returned("_namespace_username")
    /\ call.args = <<user_0, db, user_0, web_0>>
    /\ call.ret = <<user_0_db, user_0_web_0>>

(***************************************************************************)
(* C7.  No collision between distinct principals: two accounts (u1, h1)    *)
(* and (u2, h2) with usernames other than root that differ in the username *)
(* or in the host name get different principal atoms.  The exporter        *)
(* violates it: u_h is ambiguous when names contain the underscore, admin  *)
(* on web_db and admin_web on db are both admin_web_db.                    *)
(***************************************************************************)
C7_NoPrincipalCollision ==
    Returned("_namespace_username") =>
        LET u1 == call.args[1]
            h1 == call.args[2]
            u2 == call.args[3]
            h2 == call.args[4]
        IN  (u1 # root /\ u2 # root /\ (u1 # u2 \/ h1 # h2)) =>
                _prolog_atom(call.ret[1]) # _prolog_atom(call.ret[2])

(***************************************************************************)
(* C8.  Atom quoting.  As claimed: _prolog_atom wraps the name in single   *)
(* quotes whenever it starts with an uppercase letter or contains a        *)
(* character outside [a-z0-9_], an uppercase letter in a later position    *)
(* included, and returns it unquoted whenever it matches                   *)
(* ^[a-z][a-z0-9_]*$.  The exporter leaves aB unquoted.                    *)
(* As amended: the name is wrapped in single quotes exactly when it is     *)
(* empty, its first character is not a lowercase letter, or one of its     *)
(* characters is neither alphanumeric nor the underscore; otherwise it is  *)
(* returned unchanged, so every name matching ^[a-z][a-z0-9_]*$ is         *)
(* unquoted, and so is one with an uppercase letter after the first        *)
(* character.                                                              *)
(***************************************************************************)
Quoted(name) == <<"'">> \o name \o <<"'">>

SafeChars == LowerChars \cup DigitChars \cup {"_"}

\* ^[a-z][a-z0-9_]*$
MatchesSafeAtom(name) ==
    /\ name # <<>>
    /\ name[1] \in LowerChars
    /\ \A i \in 1..Len(name) : name[i] \in SafeChars

MustQuote(name) ==
    \/ name = <<>>
    \/ name[1] \notin LowerChars
    \/ \E i \in 1..Len(name) : name[i] \notin SafeChars \cup UpperChars

IsVulExists(line) == StartsWith(line, vulExists_open)
IsNetworkServiceInfo(line) == StartsWith(line, networkServiceInfo_open)
IsVulProperty(line) == StartsWith(line, vulProperty_open)
IsComment(line) == StartsWith(line, comment_open)

\* The (host, position) pairs of the vulnerabilities of the given playbook.
Occurrences(path) ==
    UNION {{<<h, v>> : v \in {w \in DOMAIN h.vulnerabilities :
                                 h.vulnerabilities[w].playbook_path = path}} :
           h \in HostSet}

Carriers(path) == {x[1] : x \in Occurrences(path)}

\* The vulExists facts of the output for the catalog entry: any host atom,
\* then the entry's identifier and program.
VulExistsFactsOf(entry) ==
    {i \in 1..Len(facts) :
        /\ IsVulExists(facts[i])
        /\ EndsWith(facts[i], comma_space \o entry.vuln_id \o comma_space
                                \o entry.program \o close_dot)}

\* The vulProperty facts of the output for the catalog entry.
VulPropertyFactsOf(entry) ==
    {i \in 1..Len(facts) :
        /\ IsVulProperty(facts[i])
        /\ StartsWith(facts[i], vulProperty_open \o entry.vuln_id \o comma_space)}

(***************************************************************************)
(* C9.  Deduplication: when N >= 1 hosts each carry one vulnerability of   *)
(* one catalog type, the returned document holds exactly one vulProperty   *)
(* fact for the type and exactly N vulExists facts for it, one per host.   *)
(***************************************************************************)
C9_OnePropertyManyExists ==
    Done =>
        \A path \in DOMAIN VULN_LOOKUP :
            (/\ Carriers(path) # {}
             /\ Cardinality(Occurrences(path)) = Cardinality(Carriers(path))) =>
                /\ Cardinality(VulPropertyFactsOf(VULN_LOOKUP[path])) = 1
                /\ Cardinality(VulExistsFactsOf(VULN_LOOKUP[path]))
                       = Cardinality(Carriers(path))
                /\ \A h \in Carriers(path) :
                       Count(VulExistsLine(Atom(h), VULN_LOOKUP[path].vuln_id,
                                           VULN_LOOKUP[path].program)) = 1

\* Three hosts carry one vulnerability of the same type each.
C9_Witness ==
    /\ Done
    /\ \E path \in DOMAIN VULN_LOOKUP :
          /\ Cardinality(Carriers(path)) = 3
          /\ Cardinality(Occurrences(path)) = 3
          /\ Cardinality(VulExistsFactsOf(VULN_LOOKUP[path])) = 3

(***************************************************************************)
(* C10.  Every distinct (vuln_id, exploit_range, consequence) triple seen  *)
(* on a host is emitted as a vulProperty fact exactly once; the            *)
(* vulProperty facts are in ascending lexicographic order of the triple;   *)
(* they all come after every vulExists and networkServiceInfo fact, in the *)
(* last section of the document.                                           *)
(***************************************************************************)
SeenTriples ==
    {<<VULN_LOOKUP[p].vuln_id, VULN_LOOKUP[p].range, VULN_LOOKUP[p].consequence>> :
        p \in {q \in DOMAIN VULN_LOOKUP : Carriers(q) # {}}}

TripleLine(t) == VulPropertyLine(t[1], t[2], t[3])

\* s < t, code point by code point, at the first position where they differ.
LexBefore(s, t) ==
    \E k \in 1..Len(t) :
        /\ k <= Len(s) + 1
        /\ SubSeq(s, 1, k - 1) = SubSeq(t, 1, k - 1)
        /\ (k = Len(s) + 1 \/ Ord(s[k]) < Ord(t[k]))

\* The triple of a vulProperty line of the output.
TripleOf(line) == CHOOSE t \in SeenTriples : TripleLine(t) = line

TripleBefore(a, b) ==
    \/ LexBefore(a[1], b[1])
    \/ a[1] = b[1] /\ LexBefore(a[2], b[2])
    \/ a[1] = b[1] /\ a[2] = b[2] /\ LexBefore(a[3], b[3])

PropertyLines == {i \in 1..Len(facts) : IsVulProperty(facts[i])}

C10_PropertiesSortedLast ==
    Done =>
        /\ \A t \in SeenTriples : Count(TripleLine(t)) = 1
        /\ \A i \in PropertyLines : \E t \in SeenTriples : facts[i] = TripleLine(t)
        /\ \A i \in PropertyLines, j \in PropertyLines :
              i < j => TripleBefore(TripleOf(facts[i]), TripleOf(facts[j]))
        /\ \A i \in PropertyLines : \A j \in 1..Len(facts) :
              (IsVulExists(facts[j]) \/ IsNetworkServiceInfo(facts[j])) => j < i
        /\ \E h \in 1..Len(facts) :
              /\ facts[h] = VulnPropertiesHeader
              /\ \A j \in (h + 1)..Len(facts) : ~IsComment(facts[j])
              /\ PropertyLines = (h + 1)..(Len(facts) - 1)
              /\ facts[Len(facts)] = BlankLine

\* Two different types were seen, one of them on two hosts or twice on one.
C10_Witness ==
    /\ Done
    /\ Cardinality(SeenTriples) >= 2
    /\ Cardinality(PropertyLines) = Cardinality(SeenTriples)
    /\ \E p \in DOMAIN VULN_LOOKUP : Cardinality(Occurrences(p)) >= 2

EndToEndTopology ==
    ScenarioTopology(
        [hosts |-> TRUE, web_users |-> <<User(tomcat, FALSE)>>,
         db_users |-> <<User(db0, FALSE)>>, on_web |-> MaxItems + 1],
        <<[from_subnet |-> "web", to_subnet |-> "db", bidirectional |-> FALSE]>>,
        <<[target_host_id |-> HostId(2), host_user |-> db0]>>,
        <<[playbook_path |-> "vulnerabilities/apacheStruts/setupStruts.yml",
           to_user |-> None]>>)

\* "attackerLocated(internet)."
E2E_attackerLocated ==
    <<"a", "t", "t", "a", "c", "k", "e", "r", "L", "o", "c", "a", "t", "e",
      "d", "(", "i", "n", "t", "e", "r", "n", "e", "t", ")", ".">>
\* "attackGoal(execCode(db_0, db0_db_0))."
E2E_attackGoal ==
    <<"a", "t", "t", "a", "c", "k", "G", "o", "a", "l", "(", "e", "x", "e",
      "c", "C", "o", "d", "e", "(", "d", "b", "_", "0", ",", " ", "d", "b",
      "0", "_", "d", "b", "_", "0", ")", ")", ".">>
\* "hasAccount(tomcat_web_0, web_0, user)."
E2E_hasAccount ==
    <<"h", "a", "s", "A", "c", "c", "o", "u", "n", "t", "(", "t", "o", "m",
      "c", "a", "t", "_", "w", "e", "b", "_", "0", ",", " ", "w", "e", "b",
      "_", "0", ",", " ", "u", "s", "e", "r", ")", ".">>
\* "hacl(internet, web_0, _, _)."
E2E_hacl_internet_web ==
    <<"h", "a", "c", "l", "(", "i", "n", "t", "e", "r", "n", "e", "t", ",",
      " ", "w", "e", "b", "_", "0", ",", " ", "_", ",", " ", "_", ")", ".">>
\* "hacl(web_0, db_0, _, _)."
E2E_hacl_web_db ==
    <<"h", "a", "c", "l", "(", "w", "e", "b", "_", "0", ",", " ", "d", "b",
      "_", "0", ",", " ", "_", ",", " ", "_", ")", ".">>
\* "vulExists(web_0, 'CVE-2017-5638', httpd)."
E2E_vulExists ==
    <<"v", "u", "l", "E", "x", "i", "s", "t", "s", "(", "w", "e", "b", "_",
      "0", ",", " ", "'", "C", "V", "E", "-", "2", "0", "1", "7", "-", "5",
      "6", "3", "8", "'", ",", " ", "h", "t", "t", "p", "d", ")", ".">>
\* "networkServiceInfo(web_0, httpd, tcp, 8080, root)."
E2E_networkServiceInfo ==
    <<"n", "e", "t", "w", "o", "r", "k", "S", "e", "r", "v", "i", "c", "e",
      "I", "n", "f", "o", "(", "w", "e", "b", "_", "0", ",", " ", "h", "t",
      "t", "p", "d", ",", " ", "t", "c", "p", ",", " ", "8", "0", "8", "0",
      ",", " ", "r", "o", "o", "t", ")", ".">>
\* "vulProperty('CVE-2017-5638', remoteExploit, privEscalation)."
E2E_vulProperty ==
    <<"v", "u", "l", "P", "r", "o", "p", "e", "r", "t", "y", "(", "'", "C",
      "V", "E", "-", "2", "0", "1", "7", "-", "5", "6", "3", "8", "'", ",",
      " ", "r", "e", "m", "o", "t", "e", "E", "x", "p", "l", "o", "i", "t",
      ",", " ", "p", "r", "i", "v", "E", "s", "c", "a", "l", "a", "t", "i",
      "o", "n", ")", ".">>
\* "hacl(db_0, web_0, _, _)."
E2E_hacl_db_web ==
    <<"h", "a", "c", "l", "(", "d", "b", "_", "0", ",", " ", "w", "e", "b",
      "_", "0", ",", " ", "_", ",", " ", "_", ")", ".">>
\* "hacl(internet, db_0, _, _)."
E2E_hacl_internet_db ==
    <<"h", "a", "c", "l", "(", "i", "n", "t", "e", "r", "n", "e", "t", ",",
      " ", "d", "b", "_", "0", ",", " ", "_", ",", " ", "_", ")", ".">>

\* The lines of the document: the document split at the line feeds.
RECURSIVE SplitLines(_)
SplitLines(doc) ==
    IF \E i \in 1..Len(doc) : doc[i] = "\n"
    THEN LET i == CHOOSE k \in 1..Len(doc) :
                      doc[k] = "\n" /\ \A j \in 1..(k - 1) : doc[j] # "\n"
         IN  <<SubSeq(doc, 1, i - 1)>> \o SplitLines(SubSeq(doc, i + 1, Len(doc)))
    ELSE <<doc>>

DocumentLines == {SplitLines(document)[i] : i \in 1..Len(SplitLines(document))}

C12_EndToEndScenario ==
    (Done /\ topology = EndToEndTopology) =>
        /\ {E2E_attackerLocated, E2E_attackGoal, E2E_hasAccount,
            E2E_hacl_internet_web, E2E_hacl_web_db, E2E_vulExists,
            E2E_networkServiceInfo, E2E_vulProperty} \subseteq DocumentLines
        /\ E2E_hacl_db_web \notin DocumentLines
        /\ E2E_hacl_internet_db \notin DocumentLines

\* The export of the scenario has returned its document.
C12_Witness ==
    /\ Done
    /\ call = NoCall
    /\ topology = EndToEndTopology
    /\ E2E_attackGoal \in DocumentLines

(***************************************************************************)
(* Reading the goals, the vulnerabilities and the warnings.                *)
(***************************************************************************)
\* The goals of the topology whose host identifier resolves, and the others.
ResolvedGoals ==
    LET Resolves(goal) == GoalResolves(topology, goal)
    IN  SelectSeq(topology.goals, Resolves)

UnresolvedGoals ==
    LET Dangling(goal) == ~GoalResolves(topology, goal)
    IN  SelectSeq(topology.goals, Dangling)

\* The vulnerabilities of the topology with their hosts, in the order of the
\* loops over networks, subnets, hosts and vulnerabilities.
AllVulnerabilities ==
    ConcatAll([h \in 1..Len(Hosts(topology)) |->
        [v \in 1..Len(Hosts(topology)[h].vulnerabilities) |->
            [host |-> Hosts(topology)[h],
             vuln |-> Hosts(topology)[h].vulnerabilities[v]]]])

HasMappedVuln(x) == IsMapped(x.vuln)
HasUnmappedVuln(x) == ~IsMapped(x.vuln)
MappedVulnerabilities == SelectSeq(AllVulnerabilities, HasMappedVuln)
UnmappedVulnerabilities == SelectSeq(AllVulnerabilities, HasUnmappedVuln)

IsAttackGoal(line) == StartsWith(line, attackGoal_open)
IsHasAccount(line) == StartsWith(line, hasAccount_open)

\* The lines of the given kind, in the order of the output.
LinesOf(lines, Kind(_)) == SelectSeq(lines, Kind)

(***************************************************************************)
(* C13.  Soft errors are local.  Every goal whose target_host_id does not  *)
(* resolve and every vulnerability whose playbook_path is not in the       *)
(* catalog appends exactly one warning, the warnings of the goals first    *)
(* and then those of the vulnerabilities in traversal order; only that     *)
(* item is skipped: every other goal has its attackGoal fact, every other  *)
(* vulnerability (of the same host too) has its vulExists fact, and the    *)
(* function returns a document.                                            *)
(***************************************************************************)
C13_SoftErrorsLocal ==
    Done =>
        /\ Len(warnings) = Len(UnresolvedGoals) + Len(UnmappedVulnerabilities)
        /\ \A i \in 1..Len(UnresolvedGoals) :
              /\ Len(warnings[i]) = 2
              /\ warnings[i][2] = UnresolvedGoals[i].target_host_id
        /\ \A i \in 1..Len(UnmappedVulnerabilities) :
              LET w == warnings[Len(UnresolvedGoals) + i]
              IN  /\ Len(w) = 5
                  /\ w[2] = UnmappedVulnerabilities[i].vuln.playbook_path
                  /\ w[4] = UnmappedVulnerabilities[i].host.name
        /\ Len(LinesOf(facts, IsAttackGoal)) = Len(ResolvedGoals)
        /\ Len(LinesOf(facts, IsVulExists)) = Len(MappedVulnerabilities)
        /\ \A i \in 1..Len(MappedVulnerabilities) :
              LET x == MappedVulnerabilities[i]
              IN  LinesOf(facts, IsVulExists)[i] =
                      VulExistsLine(Atom(x.host),
                                    VULN_LOOKUP[x.vuln.playbook_path].vuln_id,
                                    VULN_LOOKUP[x.vuln.playbook_path].program)
        /\ document = join(<<"\n">>, facts)

\* A host whose first vulnerability is not in the catalog and whose second
\* one is: one warning, and the vulExists fact of the second.
C13_Witness ==
    /\ Done
    /\ \E h \in HostSet :
          /\ Len(h.vulnerabilities) = 2
          /\ ~IsMapped(h.vulnerabilities[1])
          /\ IsMapped(h.vulnerabilities[2])
    /\ Len(warnings) = 1
    /\ Len(LinesOf(facts, IsVulExists)) = 1

(***************************************************************************)
(* C14.  Soft errors only cause omission: the facts (the lines that are    *)
(* neither comments nor blank) emitted for a topology are, in the same     *)
(* order, the facts emitted for the topology without its unresolvable      *)
(* goals and its unmapped vulnerabilities.                                 *)
(***************************************************************************)
IsFact(line) == line # BlankLine /\ ~IsComment(line)

C14_SoftErrorsOnlyOmit ==
    (Done /\ call.fn = "without_soft_errors") =>
        /\ warnings = <<>>
        /\ LinesOf(facts, IsFact) = LinesOf(call.ret.facts, IsFact)

\* The first call warned about a goal or a vulnerability, and the second
\* call, without them, has returned.
C14_Witness ==
    /\ Done
    /\ call.fn = "without_soft_errors"
    /\ call.ret.warnings # <<>>
    /\ call.args[1] # topology
    /\ \E i \in 1..Len(facts) : IsVulExists(facts[i])

(***************************************************************************)
(* C15.  A connection whose from_subnet or to_subnet names no subnet of    *)
(* the topology contributes no fact: the iteration of step 4c that         *)
(* processes it appends nothing, bidirectional or not, the function goes   *)
(* on and returns, and the lines and the document are those returned for   *)
(* the topology without such connections.                                  *)
(***************************************************************************)
C15_UnknownSubnetContributesNothing ==
    [][/\ (/\ pc = "step4c"
           /\ conn_i <= Len(topology.subnet_connections)
           /\ ~IsKnownConnection(topology, topology.subnet_connections[conn_i]))
          => (facts' = facts /\ warnings' = warnings)
       /\ (pc' = "done" /\ call'.fn = "without_unknown_connections")
          => /\ facts' = call'.ret.facts
             /\ document' = call'.ret.document]_vars

\* The first call processed a connection that names an unknown subnet, the
\* second call on the topology without it has returned, and a known
\* connection has contributed its fact.
C15_Witness ==
    /\ Done
    /\ call.fn = "without_unknown_connections"
    /\ Len(call.args[1].subnet_connections) > Len(topology.subnet_connections)
    /\ \E c \in ConnectionSet :
          \E a \in HostsNamed(c.from_subnet), b \in HostsNamed(c.to_subnet) :
              a # b /\ HaclLine(Atom(a), Atom(b)) \in FactSet

(***************************************************************************)
(* C16.  Accounts: for every host and every user listed on it exactly one  *)
(* hasAccount fact is emitted, binding the namespaced principal to the     *)
(* host, with the permission root if is_admin is true and user otherwise;  *)
(* there is no other hasAccount fact.                                      *)
(***************************************************************************)
\* The principal of a username on a host: root, or username_hostname.
Principal(username, host) ==
    IF username = <<"r", "o", "o", "t">> THEN <<"r", "o", "o", "t">>
    ELSE username \o <<"_">> \o host.name

\* The users of the topology with their hosts, in traversal order.
AllUsers ==
    ConcatAll([h \in 1..Len(Hosts(topology)) |->
        [u \in 1..Len(Hosts(topology)[h].users) |->
            [host |-> Hosts(topology)[h], user |-> Hosts(topology)[h].users[u]]]])

ExpectedAccountLine(x) ==
    hasAccount_open \o _prolog_atom(Principal(x.user.username, x.host))
    \o comma_space \o Atom(x.host) \o comma_space
    \o (IF x.user.is_admin THEN <<"r", "o", "o", "t">>
        ELSE <<"u", "s", "e", "r">>)
    \o close_dot

C16_OneAccountFactPerUser ==
    Done =>
        LinesOf(facts, IsHasAccount) =
            [i \in 1..Len(AllUsers) |-> ExpectedAccountLine(AllUsers[i])]

\* A host with an administrator and a user who is not one.
C16_Witness ==
    /\ Done
    /\ \E h \in HostSet :
          /\ \E u \in DOMAIN h.users : h.users[u].is_admin
          /\ \E u \in DOMAIN h.users : ~h.users[u].is_admin
    /\ Len(LinesOf(facts, IsHasAccount)) >= 2

(***************************************************************************)
(* C17.  For every mapped vulnerability exactly one vulExists fact is      *)
(* emitted.  A networkServiceInfo fact follows it if and only if the       *)
(* catalog range is remoteExploit; it carries the protocol and the port of *)
(* the catalog entry, which are not None for a remote entry, and the       *)
(* namespaced principal of to_user, or root when to_user is absent (None   *)
(* or empty).  A localExploit vulnerability has no networkServiceInfo.     *)
(***************************************************************************)
IsVulnFact(line) == IsVulExists(line) \/ IsNetworkServiceInfo(line)

ServiceUser(vuln) ==
    IF vuln.to_user = None \/ vuln.to_user = <<>> THEN <<"r", "o", "o", "t">>
    ELSE vuln.to_user

ExpectedVulnLines(x) ==
    LET entry == VULN_LOOKUP[x.vuln.playbook_path]
    IN  <<vulExists_open \o Atom(x.host) \o comma_space \o entry.vuln_id
          \o comma_space \o entry.program \o close_dot>>
        \o (IF entry.range = <<"r", "e", "m", "o", "t", "e", "E", "x", "p",
                               "l", "o", "i", "t">>
            THEN <<networkServiceInfo_open \o Atom(x.host) \o comma_space
                   \o entry.program \o comma_space \o entry.protocol
                   \o comma_space \o IntToStr(entry.port) \o comma_space
                   \o _prolog_atom(Principal(ServiceUser(x.vuln), x.host))
                   \o close_dot>>
            ELSE <<>>)

C17_ServiceInfoIffRemote ==
    Done =>
        /\ \A p \in DOMAIN VULN_LOOKUP :
              /\ VULN_LOOKUP[p].range \in {remoteExploit, localExploit}
              /\ VULN_LOOKUP[p].range = remoteExploit =>
                    /\ VULN_LOOKUP[p].protocol # None
                    /\ VULN_LOOKUP[p].port \in Nat
        /\ LinesOf(facts, IsVulnFact) =
              ConcatAll([i \in 1..Len(MappedVulnerabilities) |->
                            ExpectedVulnLines(MappedVulnerabilities[i])])
        /\ Len(LinesOf(facts, IsVulExists)) = Len(MappedVulnerabilities)
        /\ Len(LinesOf(facts, IsNetworkServiceInfo)) =
              Cardinality({i \in 1..Len(MappedVulnerabilities) :
                  VULN_LOOKUP[MappedVulnerabilities[i].vuln.playbook_path].range
                      = remoteExploit})

\* A remote vulnerability with to_user and a local one on one host: two
\* vulExists facts, one networkServiceInfo fact.
C17_Witness ==
    /\ Done
    /\ \E i \in 1..Len(MappedVulnerabilities) :
          /\ VULN_LOOKUP[MappedVulnerabilities[i].vuln.playbook_path].range
                = remoteExploit
          /\ Truthy(MappedVulnerabilities[i].vuln.to_user)
    /\ \E i \in 1..Len(MappedVulnerabilities) :
          VULN_LOOKUP[MappedVulnerabilities[i].vuln.playbook_path].range
              = localExploit
    /\ Len(LinesOf(facts, IsVulExists)) = 2
    /\ Len(LinesOf(facts, IsNetworkServiceInfo)) = 1

(***************************************************************************)
(* C18.  Goals: for every goal whose target host resolves exactly one      *)
(* attackGoal(execCode(host, principal)) fact is emitted, in goal order;   *)
(* the principal is the namespaced target username when the goal has one   *)
(* and root when it has none (host_user missing, None or empty).  The      *)
(* exporter violates it for the empty host_user: only None falls back to   *)
(* root, so the empty name is namespaced to _hostname.                     *)
(***************************************************************************)
TargetUser(goal) ==
    IF goal.host_user \in {Absent, None, <<>>} THEN <<"r", "o", "o", "t">>
    ELSE goal.host_user

ExpectedGoalLine(goal) ==
    LET host == get_host_by_id(topology, goal.target_host_id)
    IN  attackGoal_open \o Atom(host) \o comma_space
        \o _prolog_atom(Principal(TargetUser(goal), host)) \o close_close_dot

C18_OneGoalFactPerResolvedGoal ==
    Done =>
        LinesOf(facts, IsAttackGoal) =
            [i \in 1..Len(ResolvedGoals) |-> ExpectedGoalLine(ResolvedGoals[i])]

(***************************************************************************)
(* C19.  The sections of the document are always in the order attacker     *)
(* location, goals, accounts, reachability, vulnerabilities and services,  *)
(* vulnerability properties, each one header, its lines and a blank line,  *)
(* for every topology (without goals, users, hosts or vulnerabilities      *)
(* too); the attacker section holds exactly the fact                       *)
(* attackerLocated(internet).                                              *)
(***************************************************************************)
SectionHeaders ==
    <<AttackerHeader, GoalsHeader, AccountsHeader, ReachabilityHeader,
      VulnerabilitiesHeader, VulnPropertiesHeader>>

\* The line of the k-th header, the last line of the k-th section, and the
\* lines in between.
HeaderAt(k) == CHOOSE i \in 1..Len(facts) : facts[i] = SectionHeaders[k]

SectionEnd(k) ==
    IF k = Len(SectionHeaders) THEN Len(facts) ELSE HeaderAt(k + 1) - 1

SectionBody(k) == (HeaderAt(k) + 1)..(SectionEnd(k) - 1)

\* The lines the k-th section may hold.
BelongsTo(k, line) ==
    CASE k = 1 -> line = E2E_attackerLocated
      [] k = 2 -> IsAttackGoal(line)
      [] k = 3 -> IsHasAccount(line)
      [] k = 4 -> IsHacl(line)
      [] k = 5 -> IsVulnFact(line)
                  \/ \E h \in HostSet :
                        line = comment_open \o h.name \o comment_close
      [] OTHER -> IsVulProperty(line)

C19_SectionOrder ==
    Done =>
        /\ \A k \in DOMAIN SectionHeaders : Count(SectionHeaders[k]) = 1
        /\ HeaderAt(1) = 1
        /\ \A k \in 1..(Len(SectionHeaders) - 1) : HeaderAt(k) < HeaderAt(k + 1)
        /\ \A k \in DOMAIN SectionHeaders :
              /\ HeaderAt(k) < SectionEnd(k)
              /\ facts[SectionEnd(k)] = <<>>
              /\ \A i \in SectionBody(k) : BelongsTo(k, facts[i])
        /\ SectionBody(1) = {2}
        /\ document = join(<<"\n">>, facts)

\* A topology without hosts and without goals: six headers, the attacker's
\* fact and six blank lines.
C19_Witness ==
    /\ Done
    /\ HostSet = {}
    /\ topology.goals = <<>>
    /\ Len(facts) = 13

(***************************************************************************)
(* C20.  emit_mulval_facts never mutates its input: from its entry to its  *)
(* return no step changes the topology, so the networks, subnets, hosts,   *)
(* users, vulnerabilities, subnet_connections and goals are the same, in   *)
(* the same order, after the call; the lists that subnet_hosts and         *)
(* external_subnets share with the topology stay equal to the topology's.  *)
(* The catalog VULN_LOOKUP is only read.                                   *)
(***************************************************************************)
C20_InputNotMutated ==
    [][pc # "done" =>
          /\ topology' = topology
          /\ pc' \notin {"start", "step1"} =>
                /\ subnet_hosts' = _build_subnet_host_map(topology)
                /\ external_subnets' = _get_external_subnets(topology)]_vars

\* The export of a topology with hosts, users, goals, vulnerabilities and
\* connections has returned.
C20_Witness ==
    /\ Done
    /\ call = NoCall
    /\ topology.goals # <<>>
    /\ topology.subnet_connections # <<>>
    /\ \E h \in HostSet : h.users # <<>> /\ h.vulnerabilities # <<>>
    /\ document # None

(***************************************************************************)
(* export_mulval_facts_to_file(topology, output_path): the document of     *)
(* emit_mulval_facts is written to the file at output_path.  The state of  *)
(* the call is kept in call: f is the file object of the with statement    *)
(* ("unbound", "open" or "closed"), file is the content on disk (None when *)
(* there is no file), stdout the lines printed, raised the exception that  *)
(* leaves the function ("no": none), opens the number of calls of open.                 *)
(***************************************************************************)
ExportName == "export_mulval_facts_to_file"

\* "MulVAL facts written to: "
WrittenTo ==
    <<"M", "u", "l", "V", "A", "L", " ", "f", "a", "c", "t", "s", " ", "w",
      "r", "i", "t", "t", "e", "n", " ", "t", "o", ":", " ">>

OutputPaths == {<<"i", "n", "p", "u", "t", ".", "P">>, <<"/", "x", "/", "y">>}

OldContents == {None, <<"o", "l", "d">>}

ExportTopologies == {EndToEndTopology, EmptyTopology}

InitExport ==
    /\ topology \in ExportTopologies
    /\ \E path \in OutputPaths, old \in OldContents :
          call = [fn |-> ExportName, args |-> <<path>>, ret |-> None,
                  f |-> "unbound", file |-> old, stdout |-> <<>>,
                  raised |-> "no", opens |-> 0]
    /\ pc = "start"
    /\ facts = <<>>
    /\ vuln_properties_seen = {}
    /\ warnings = <<>>
    /\ subnet_hosts = <<>>
    /\ external_subnets = <<>>
    /\ conn_i = 0
    /\ document = None

\* Line 411, open(output_path, "w"): the file is created or truncated and
\* bound to f, or OSError is raised and nothing on disk changes.
Export_Open ==
    /\ pc = "done"
    /\ call.fn = ExportName
    /\ \E ok \in BOOLEAN :
          IF ok
          THEN /\ call' = [call EXCEPT !.f = "open", !.file = <<>>,
                                       !.opens = @ + 1]
               /\ pc' = "write"
          ELSE /\ call' = [call EXCEPT !.raised = "OSError", !.opens = @ + 1]
               /\ pc' = "raised"
    /\ UNCHANGED <<topology, facts, vuln_properties_seen, warnings,
                   subnet_hosts, external_subnets, conn_i, document>>

\* Line 412, f.write(facts): the first n characters reach the disk; the
\* rest stays in the buffer of f, or OSError is raised.
Export_Write ==
    /\ pc = "write"
    /\ \E n \in 0..Len(document), ok \in BOOLEAN :
          /\ ~ok => n < Len(document)
          /\ call' = [call EXCEPT !.file = SubSeq(document, 1, n),
                                  !.raised = IF ok THEN "no" ELSE "OSError"]
    /\ pc' = "exit"
    /\ UNCHANGED <<topology, facts, vuln_properties_seen, warnings,
                   subnet_hosts, external_subnets, conn_i, document>>

\* Faulty variant of Export_Exit: f is closed only when the block was left
\* without an exception (f = open(...); f.write(...); f.close()).
Export_Exit_no_with ==
    /\ pc = "exit"
    /\ IF call.raised # "no"
       THEN /\ call' = call
            /\ pc' = "raised"
       ELSE /\ call' = [call EXCEPT !.f = "closed", !.file = document]
            /\ pc' = "print"
    /\ UNCHANGED <<topology, facts, vuln_properties_seen, warnings,
                   subnet_hosts, external_subnets, conn_i, document>>

\* Line 411, the end of the with block: f is closed whether or not the
\* block raised.  Closing flushes the buffer, which can raise OSError too;
\* f is closed all the same.
Export_Exit ==
    /\ pc = "exit"
    /\ IF call.raised # "no"
       THEN /\ call' = [call EXCEPT !.f = "closed"]
            /\ pc' = "raised"
       ELSE \E n \in Len(call.file)..Len(document) :
               /\ call' = [call EXCEPT !.f = "closed",
                              !.file = SubSeq(document, 1, n),
                              !.raised = IF n = Len(document) THEN "no"
                                         ELSE "OSError"]
               /\ pc' = IF n = Len(document) THEN "print" ELSE "raised"
    /\ UNCHANGED <<topology, facts, vuln_properties_seen, warnings,
                   subnet_hosts, external_subnets, conn_i, document>>

\* Line 413, the message on stdout; the function returns None.
Export_Print ==
    /\ pc = "print"
    /\ call' = [call EXCEPT !.stdout = @ \o <<WrittenTo \o call.args[1]>>]
    /\ pc' = "returned"
    /\ UNCHANGED <<topology, facts, vuln_properties_seen, warnings,
                   subnet_hosts, external_subnets, conn_i, document>>

NextExport ==
    \/ Next
    \/ Export_Open
    \/ Export_Write
    \/ Export_Exit
    \/ Export_Print

SpecExport == InitExport /\ [][NextExport]_vars

(***************************************************************************)
(* C21.  export_mulval_facts_to_file: a failure of open or of the write    *)
(* leaves the function as an exception, and open is called once at most    *)
(* (no retry); when the function is left, by return or by exception, the   *)
(* file object is not open; and the message is on stdout only when the     *)
(* whole document is on disk and no exception was raised.                  *)
(***************************************************************************)
ExportLeft == pc \in {"raised", "returned"}

C21_ExportFailuresPropagate ==
    call.fn = ExportName =>
        /\ call.opens <= 1
        /\ call.raised # "no" => pc \in {"exit", "raised"} /\ call.stdout = <<>>
        /\ pc = "raised" => call.raised # "no"
        /\ ExportLeft => call.f # "open"
        /\ call.stdout # <<>> =>
              /\ call.file = document
              /\ call.stdout = <<WrittenTo \o call.args[1]>>
        /\ pc = "returned" => call.stdout # <<>>

\* The write failed with a part of the document on disk; the exception has
\* left the function and the file object is closed.
C21_Witness ==
    /\ call.fn = ExportName
    /\ pc = "raised"
    /\ call.f = "closed"
    /\ call.file # <<>>
    /\ call.file # document

(***************************************************************************)
(* Two invocations of emit_mulval_facts at once.  The first runs in the    *)
(* variables of the module; the locals of the second (lines 191-199: its   *)
(* own facts, vuln_properties_seen, warnings, subnet_hosts and             *)
(* external_subnets, and its position) are the frame kept in call, its     *)
(* topology is call.args[1].  VULN_LOOKUP is the one object of the module  *)
(* that both read.                                                         *)
(***************************************************************************)
EmitName == "emit_mulval_facts"

\* The locals of an invocation before its first statement.
InitFrame ==
    [pc |-> "start", facts |-> <<>>, vuln_properties_seen |-> {},
     warnings |-> <<>>, subnet_hosts |-> <<>>, external_subnets |-> <<>>,
     conn_i |-> 0, document |-> None]

\* The frame after the next step of emit_mulval_facts on the topology t,
\* step by step the actions Enter .. Return above.
StepFrame(t, fr) ==
    CASE fr.pc = "start" ->
            [fr EXCEPT !.pc = "step1",
                       !.subnet_hosts = _build_subnet_host_map(t),
                       !.external_subnets = _get_external_subnets(t)]
      [] fr.pc = "step1" ->
            [fr EXCEPT !.pc = "step2",
                       !.facts = @ \o <<AttackerHeader, AttackerLocatedLine,
                                        BlankLine>>]
      [] fr.pc = "step2" ->
            [fr EXCEPT !.pc = "step3",
                       !.facts = @ \o <<GoalsHeader>>
                           \o ConcatAll([g \in 1..Len(t.goals) |->
                                            GoalLines(t, t.goals[g])])
                           \o <<BlankLine>>,
                       !.warnings = @
                           \o ConcatAll([g \in 1..Len(t.goals) |->
                                            GoalWarnings(t, t.goals[g])])]
      [] fr.pc = "step3" ->
            [fr EXCEPT !.pc = "step4a",
                       !.facts = @ \o <<AccountsHeader>>
                           \o ConcatAll([h \in 1..Len(Hosts(t)) |->
                                            AccountLines(Hosts(t)[h])])
                           \o <<BlankLine>>]
      [] fr.pc = "step4a" ->
            [fr EXCEPT !.pc = "step4b",
                       !.facts = @ \o <<ReachabilityHeader>>
                           \o [h \in 1..Len(Hosts(t)) |-> SelfLine(Hosts(t)[h])]]
      [] fr.pc = "step4b" ->
            [fr EXCEPT !.pc = "step4c",
                       !.conn_i = 1,
                       !.facts = @
                           \o ConcatAll([s \in 1..Len(Subnets(t)) |->
                                            IntraSubnetLines(Subnets(t)[s])])]
      [] fr.pc = "step4c" /\ fr.conn_i <= Len(t.subnet_connections) ->
            [fr EXCEPT !.conn_i = @ + 1,
                       !.facts = @
                           \o ConnectionLines(fr.subnet_hosts,
                                              t.subnet_connections[fr.conn_i])]
      [] fr.pc = "step4c" /\ fr.conn_i > Len(t.subnet_connections) ->
            [fr EXCEPT !.pc = "step5",
                       !.facts = @
                           \o ConcatAll([s \in 1..Len(fr.external_subnets) |->
                                            InternetLines(fr.external_subnets[s])])
                           \o <<BlankLine>>]
      [] fr.pc = "step5" ->
            [fr EXCEPT !.pc = "step6",
                       !.facts = @ \o <<VulnerabilitiesHeader>>
                           \o ConcatAll([h \in 1..Len(Hosts(t)) |->
                                            HostVulnLines(Hosts(t)[h])])
                           \o <<BlankLine>>,
                       !.warnings = @
                           \o ConcatAll([h \in 1..Len(Hosts(t)) |->
                                            HostVulnWarnings(Hosts(t)[h])]),
                       !.vuln_properties_seen = @
                           \cup UNION {HostVulnProperties(Hosts(t)[h]) :
                                          h \in 1..Len(Hosts(t))}]
      [] fr.pc = "step6" ->
            [fr EXCEPT !.pc = "return",
                       !.facts = @ \o <<VulnPropertiesHeader>>
                           \o VulnPropertyLines(fr.vuln_properties_seen)
                           \o <<BlankLine>>]
      [] fr.pc = "return" ->
            [fr EXCEPT !.pc = "done", !.document = join(<<"\n">>, fr.facts)]

\* Faulty variant of OtherInvocationStep: vuln_properties_seen is one set of
\* the module that both invocations add to and read.
OtherInvocationStep_shared_seen ==
    /\ call.fn = EmitName
    /\ call.frame.pc # "done"
    /\ LET shared == [call.frame EXCEPT
                         !.vuln_properties_seen = vuln_properties_seen]
           after == StepFrame(call.args[1], shared)
       IN  /\ call' = [call EXCEPT !.frame = after, !.ret = after.document]
           /\ vuln_properties_seen' = after.vuln_properties_seen
    /\ UNCHANGED <<topology, pc, facts, warnings, subnet_hosts,
                   external_subnets, conn_i, document>>

\* One step of the second invocation: it reads and writes its own frame.
OtherInvocationStep ==
    /\ call.fn = EmitName
    /\ call.frame.pc # "done"
    /\ LET after == StepFrame(call.args[1], call.frame)
       IN  call' = [call EXCEPT !.frame = after, !.ret = after.document]
    /\ UNCHANGED <<topology, pc, facts, vuln_properties_seen, warnings,
                   subnet_hosts, external_subnets, conn_i, document>>

\* The end-to-end topology, a topology with other users, connections, goals
\* and vulnerabilities, and the topology without anything.
ConcurrentTopologies ==
    {EndToEndTopology,
     ScenarioTopology(
        [hosts |-> TRUE, web_users |-> <<User(admin, TRUE)>>,
         db_users |-> <<User(root, TRUE)>>, on_web |-> 1],
        <<[from_subnet |-> "db", to_subnet |-> "web", bidirectional |-> TRUE]>>,
        <<[target_host_id |-> HostId(1), host_user |-> None],
          [target_host_id |-> HostId(99), host_user |-> db0]>>,
        <<[playbook_path |-> "vulnerabilities/NetcatShell.yml", to_user |-> <<>>],
          [playbook_path |-> "vulnerabilities/privledge_escalation/sudobaron/sudobaron.yml",
           to_user |-> None],
          [playbook_path |-> "vulnerabilities/unknown.yml", to_user |-> None]>>),
     EmptyTopology}

InitConcurrent ==
    /\ \E t1 \in ConcurrentTopologies, t2 \in ConcurrentTopologies :
          /\ t1 # t2
          /\ topology = t1
          /\ call = [fn |-> EmitName, args |-> <<t2>>, ret |-> None,
                     frame |-> InitFrame]
    /\ pc = "start"
    /\ facts = <<>>
    /\ vuln_properties_seen = {}
    /\ warnings = <<>>
    /\ subnet_hosts = <<>>
    /\ external_subnets = <<>>
    /\ conn_i = 0
    /\ document = None

NextConcurrent ==
    \/ Next
    \/ OtherInvocationStep

SpecConcurrent == InitConcurrent /\ [][NextConcurrent]_vars

(***************************************************************************)
(* C22.  Two invocations of emit_mulval_facts on different topologies,     *)
(* their steps interleaved in any order: each returns the document it      *)
(* returns when it runs alone from its first statement to its last.        *)
(***************************************************************************)
RECURSIVE RunFrom(_, _)
RunFrom(t, fr) == IF fr.pc = "done" THEN fr.document ELSE RunFrom(t, StepFrame(t, fr))

\* The document of an invocation on t that runs alone.
RunAlone(t) == RunFrom(t, InitFrame)

C22_InvocationsIndependent ==
    call.fn = EmitName =>
        /\ pc = "done" => document = RunAlone(topology)
        /\ call.frame.pc = "done" => call.ret = RunAlone(call.args[1])

\* Both have returned, and both emitted vulnerability properties.
C22_Witness ==
    /\ call.fn = EmitName
    /\ pc = "done"
    /\ call.frame.pc = "done"
    /\ vuln_properties_seen # {}
    /\ call.frame.vuln_properties_seen # {}
    /\ document # call.ret

(***************************************************************************)
(* Topologies of two subnets, s1 external, with hosts in both and with     *)
(* OrderConns connections between subnets that exist, for the order of the *)
(* lines of step 4.                                                        *)
(***************************************************************************)
OrderHosts == 2   \* hosts of a subnet of a topology of InitOrder
OrderConns == 2   \* subnet connections of a topology of InitOrder

KnownConnections ==
    [from_subnet : {"s1", "s2"}, to_subnet : {"s1", "s2"}, bidirectional : BOOLEAN]

InitOrder ==
    /\ \E n1 \in 1..OrderHosts, n2 \in 1..OrderHosts, e2 \in BOOLEAN :
       \E conns \in [1..OrderConns -> KnownConnections] :
           topology = ReachTopology(n1, n2, TRUE, e2, FALSE, conns)
    /\ InitLocals

SpecOrder == InitOrder /\ [][Next]_vars

(***************************************************************************)
(* C23.  The lines of the reachability section are, in this order: one     *)
(* self-reachability fact per host; the intra-subnet facts; for every      *)
(* connection in declared order its forward cross product and then, when   *)
(* it is bidirectional, the reverse one; the internet-ingress facts.  So   *)
(* every line of a kind precedes every line of the kinds after it.         *)
(***************************************************************************)
LinesBetween(S, T) == {HaclLine(Atom(x[1]), Atom(x[2])) : x \in S \X T}

\* n copies of the set of lines a position may hold.
Positions(n, lines) == [i \in 1..n |-> lines]

SelfKind == Positions(Cardinality(HostSet), {HaclLine(Atom(h), Atom(h)) : h \in HostSet})

IntraKind(subnet) ==
    Positions(Cardinality(HostSetOf(subnet)) * (Cardinality(HostSetOf(subnet)) - 1),
              {HaclLine(Atom(x[1]), Atom(x[2])) :
                  x \in {y \in HostSetOf(subnet) \X HostSetOf(subnet) : y[1] # y[2]}})

ConnectionKind(c) ==
    LET from == HostsNamed(c.from_subnet)
        to == HostsNamed(c.to_subnet)
        size == Cardinality(from) * Cardinality(to)
    IN  Positions(size, LinesBetween(from, to))
        \o Positions(IF c.bidirectional THEN size ELSE 0, LinesBetween(to, from))

InternetKind(subnet) ==
    Positions(IF subnet.external THEN Cardinality(HostSetOf(subnet)) ELSE 0,
              {InternetHaclLine(Atom(h)) : h \in HostSetOf(subnet)})

\* What each line of the section may be, position by position.
ReachabilityKinds ==
    SelfKind
    \o ConcatAll([s \in 1..Len(Subnets(topology)) |-> IntraKind(Subnets(topology)[s])])
    \o ConcatAll([c \in 1..Len(topology.subnet_connections) |->
                     ConnectionKind(topology.subnet_connections[c])])
    \o ConcatAll([s \in 1..Len(Subnets(topology)) |-> InternetKind(Subnets(topology)[s])])

C23_ReachabilityOrder ==
    Done =>
        LET kinds == ReachabilityKinds
            header == HeaderAt(4)
        IN  /\ SectionEnd(4) - header - 1 = Len(kinds)
            /\ \A i \in 1..Len(kinds) : facts[header + i] \in kinds[i]

\* Two connections with hosts at both ends, the first one bidirectional
\* between different subnets, and an external subnet of two hosts.
C23_Witness ==
    /\ Done
    /\ Len(topology.subnet_connections) >= 2
    /\ topology.subnet_connections[1].bidirectional
    /\ topology.subnet_connections[1].from_subnet
          # topology.subnet_connections[1].to_subnet
    /\ topology.subnet_connections[2] # topology.subnet_connections[1]
    /\ \E s \in SubnetSet : s.external /\ Cardinality(HostSetOf(s)) >= 2
    /\ \E i \in SectionBody(4) : \E j \in SectionBody(4) :
          i < j /\ facts[i] = facts[j]

(***************************************************************************)
(* Scenario topologies whose hosts have other names, a name that           *)
(* _prolog_atom quotes among them, with one goal and one vulnerability.    *)
(***************************************************************************)
\* The topology t with the name of every host replaced.
WithHostNames(t, Name(_)) ==
    [t EXCEPT !.networks =
        [n \in DOMAIN t.networks |->
            [t.networks[n] EXCEPT !.subnets =
                [s \in DOMAIN t.networks[n].subnets |->
                    [t.networks[n].subnets[s] EXCEPT !.hosts =
                        [h \in DOMAIN t.networks[n].subnets[s].hosts |->
                            [t.networks[n].subnets[s].hosts[h] EXCEPT
                                !.name = Name(@)]]]]]]]

\* web_0 becomes the first name, db_0 the second.
HostRenamings == {<<web_0, db_0>>, <<Db_1, db_0>>, <<web_0, Db_1>>, <<db_0, web_0>>}

InitSanitize ==
    /\ \E layout \in {x \in HostLayouts : x.hosts /\ x.web_users # <<>>} :
       \E goal \in GoalPool, vuln \in VulnPool, conns \in ConnLists :
       \E names \in HostRenamings :
           LET Name(old) == IF old = web_0 THEN names[1] ELSE names[2]
           IN  topology = WithHostNames(
                   ScenarioTopology(layout, conns, <<goal>>, <<vuln>>), Name)
    /\ InitLocals

SpecSanitize == InitSanitize /\ [][Next]_vars

(***************************************************************************)
(* C24.  Every host argument of a hacl, hasAccount, vulExists,             *)
(* networkServiceInfo or attackGoal fact of the returned document is       *)
(* _prolog_atom of a host name and every principal argument is             *)
(* _prolog_atom of a namespaced username.  The vuln_id argument of         *)
(* vulExists and vulProperty is the string the catalog stores, emitted as  *)
(* it is; the catalog stores what _prolog_atom returns for the identifier  *)
(* without its quotes ('CVE-2017-5638' for CVE-2017-5638).                 *)
(***************************************************************************)
HostAtoms == {_prolog_atom(h.name) : h \in HostSet}

\* The usernames of the accounts, goals and vulnerabilities, and root.
RawUsernames ==
    {root}
    \cup {AllUsers[i].user.username : i \in DOMAIN AllUsers}
    \cup {topology.goals[g].host_user : g \in DOMAIN topology.goals}
    \cup {AllVulnerabilities[i].vuln.to_user : i \in DOMAIN AllVulnerabilities}

PrincipalAtoms ==
    {_prolog_atom(_namespace_username(u, h.name)) :
        u \in RawUsernames \ {None, Absent}, h \in HostSet}

CatalogEntries == {VULN_LOOKUP[p] : p \in DOMAIN VULN_LOOKUP}

\* The lines that are facts over sanitized hosts and principals, with the
\* vulnerability identifiers drawn from ids.
FactsOver(ids) ==
    {HaclLine(a, b) : a \in HostAtoms, b \in HostAtoms}
    \cup {InternetHaclLine(a) : a \in HostAtoms}
    \cup {HasAccountLine(p, a, perm) :
             p \in PrincipalAtoms, a \in HostAtoms, perm \in {PermRoot, PermUser}}
    \cup {AttackGoalLine(a, p) : a \in HostAtoms, p \in PrincipalAtoms}
    \cup UNION {{VulExistsLine(a, v, e.program) : a \in HostAtoms, v \in ids} :
                e \in CatalogEntries}
    \cup UNION {UNION {{NetworkServiceInfoLine(a, e.program, e.protocol, e.port, p) :
                           a \in HostAtoms} : p \in PrincipalAtoms} :
                e \in {x \in CatalogEntries : x.range = remoteExploit}}
    \cup UNION {{VulPropertyLine(v, e.range, e.consequence) : v \in ids} :
                e \in CatalogEntries}

IsArgumentFact(line) == IsFact(line) /\ line # AttackerLocatedLine

Unquoted(atom) ==
    IF Len(atom) >= 2 /\ atom[1] = "'" /\ atom[Len(atom)] = "'"
    THEN SubSeq(atom, 2, Len(atom) - 1)
    ELSE atom

\* The claim as stated: the vuln_id argument went through _prolog_atom too.
C24_EveryIdentifierSanitized ==
    Done =>
        LET allowed == FactsOver({_prolog_atom(e.vuln_id) : e \in CatalogEntries})
        IN  \A f \in FactSet : IsArgumentFact(f) => f \in allowed

C24_HostsAndPrincipalsSanitized ==
    Done =>
        /\ LET allowed == FactsOver({e.vuln_id : e \in CatalogEntries})
           IN  \A f \in FactSet : IsArgumentFact(f) => f \in allowed
        /\ \A e \in CatalogEntries : e.vuln_id = _prolog_atom(Unquoted(e.vuln_id))

\* A host and a principal that are quoted, and a vulnerability of the
\* catalog whose identifier is stored with its quotes.
C24_Witness ==
    /\ Done
    /\ \E h \in HostSet : Atom(h) = Quoted(h.name) /\ HaclLine(Atom(h), Atom(h)) \in FactSet
    /\ \E f \in FactSet : IsAttackGoal(f) /\ EndsWith(f, <<"'">> \o close_close_dot)
    /\ \E f \in FactSet : IsVulExists(f)
    /\ \E f \in FactSet : IsNetworkServiceInfo(f)
    /\ VulPropertyLine(CVE_2017_5638, remoteExploit, privEscalation) \in FactSet

(***************************************************************************)
(* emit_mulval_facts_standalone, the copy of the exporter in               *)
(* test_exporter.py.  Its steps 1 and 3 to 6 are the statements of the     *)
(* exporter; step 2 takes root for every host_user that is not truthy.     *)
(***************************************************************************)
StandaloneName == "emit_mulval_facts_standalone"

\* Lines 188-197 of the test, one iteration of "for goal in topology.goals".
GoalLines_standalone(t, goal) ==
    LET target_host == get_host_by_id(t, goal.target_host_id)
        target_username == IF Truthy(GetHostUser(goal)) THEN GetHostUser(goal)
                           ELSE root
    IN  IF target_host = NoneHost THEN <<>>
        ELSE LET namespaced_user == _namespace_username(target_username,
                                                        target_host.name)
                 host_atom == _prolog_atom(target_host.name)
                 user_atom == _prolog_atom(namespaced_user)
             IN  <<AttackGoalLine(host_atom, user_atom)>>

\* Lines 166-299 of the test.
emit_mulval_facts_standalone(t) ==
    LET index == _build_subnet_host_map(t)
        external == _get_external_subnets(t)
        seen == UNION {HostVulnProperties(Hosts(t)[h]) : h \in 1..Len(Hosts(t))}
    IN  join(<<"\n">>,
            <<AttackerHeader, AttackerLocatedLine, BlankLine>>
            \o <<GoalsHeader>>
            \o ConcatAll([g \in 1..Len(t.goals) |-> GoalLines_standalone(t, t.goals[g])])
            \o <<BlankLine>>
            \o <<AccountsHeader>>
            \o ConcatAll([h \in 1..Len(Hosts(t)) |-> AccountLines(Hosts(t)[h])])
            \o <<BlankLine>>
            \o <<ReachabilityHeader>>
            \o [h \in 1..Len(Hosts(t)) |-> SelfLine(Hosts(t)[h])]
            \o ConcatAll([s \in 1..Len(Subnets(t)) |-> IntraSubnetLines(Subnets(t)[s])])
            \o ConcatAll([c \in 1..Len(t.subnet_connections) |->
                             ConnectionLines(index, t.subnet_connections[c])])
            \o ConcatAll([s \in 1..Len(external) |-> InternetLines(external[s])])
            \o <<BlankLine>>
            \o <<VulnerabilitiesHeader>>
            \o ConcatAll([h \in 1..Len(Hosts(t)) |-> HostVulnLines(Hosts(t)[h])])
            \o <<BlankLine>>
            \o <<VulnPropertiesHeader>>
            \o VulnPropertyLines(seen)
            \o <<BlankLine>>)

\* The test's emitter is called on the topology the exporter has returned
\* from.
InvokeStandalone ==
    /\ FirstCallReturned
    /\ call' = [fn |-> StandaloneName, args |-> <<topology>>,
                ret |-> emit_mulval_facts_standalone(topology)]
    /\ pc' = "returned"
    /\ UNCHANGED <<topology, facts, vuln_properties_seen, warnings,
                   subnet_hosts, external_subnets, conn_i, document>>

NextStandalone ==
    \/ Next
    \/ InvokeStandalone

SpecStandalone == InitScenario /\ [][NextStandalone]_vars

(***************************************************************************)
(* C25.  For every topology, emit_mulval_facts_standalone returns the      *)
(* document emit_mulval_facts returns.  The two differ for a goal whose    *)
(* host_user is the empty string: the exporter namespaces it (C18), the    *)
(* test's copy takes root.                                                 *)
(***************************************************************************)
C25_StandaloneEquivalent ==
    Returned(StandaloneName) => call.ret = document

(***************************************************************************)
(* Environment (environment.py).  The state of a call of one of its        *)
(* methods is kept in call: servers is what list_servers returns, images   *)
(* the names of the servers that have a snapshot image, log the requests   *)
(* made so far (run_playbook, rebuild_server, delete_server,               *)
(* reboot_server), status the status of each server, raised the exception  *)
(* that leaves the method ("no": none); the other fields are the locals of *)
(* the method.                                                             *)
(***************************************************************************)
\* "attacker"
attacker == <<"a", "t", "t", "a", "c", "k", "e", "r">>
\* "decoy"
decoy == <<"d", "e", "c", "o", "y">>
\* "decoy_1"
decoy_1 == <<"d", "e", "c", "o", "y", "_", "1">>
\* "kali_attacker"
kali_attacker ==
    <<"k", "a", "l", "i", "_", "a", "t", "t", "a", "c", "k", "e", "r">>

\* sub in s
Contains(s, sub) ==
    \E i \in 1..(Len(s) - Len(sub) + 1) : SubSeq(s, i, i + Len(sub) - 1) = sub

Server(name) == [id |-> id_prefix \o name, name |-> name]

Request(op, host, ok) == [op |-> op, host |-> host, ok |-> ok]

\* load_snapshot(host, wait), lines 184-204: what can happen.  get_image
\* raises AttributeError, which is raised again; or there is no image and
\* nothing is done; or rebuild_server is requested.
load_snapshot(images, host) ==
    {[raised |-> "AttributeError", log |-> <<>>]}
    \cup (IF host.name \in images
          THEN {[raised |-> "no", log |-> <<Request("rebuild", host.name, TRUE)>>]}
          ELSE {[raised |-> "no", log |-> <<>>]})

install_trials == 3

FailedToInstall == "Failed to install attacker host after 3 trials"

SetupServerLists ==
    {<<Server(attacker)>>, <<Server(attacker), Server(web_0)>>,
     <<Server(web_0), Server(kali_attacker), Server(attacker)>>, <<Server(web_0)>>, <<>>}

InitEnvironment(fn, servers, images) ==
    /\ call = [fn |-> fn, args |-> <<>>, ret |-> None, servers |-> servers,
               images |-> images, log |-> <<>>, raised |-> "no",
               errors |-> 0, i |-> 0, j |-> 0,
               status |-> [k \in DOMAIN servers |-> "ACTIVE"],
               hosts_to_rebuild |-> <<>>, hosts_to_restore |-> <<>>,
               waiting_for_rebuild |-> FALSE]
    /\ topology = EmptyTopology
    /\ pc = "call"
    /\ facts = <<>>
    /\ vuln_properties_seen = {}
    /\ warnings = <<>>
    /\ subnet_hosts = <<>>
    /\ external_subnets = <<>>
    /\ conn_i = 0
    /\ document = None

InitSetup ==
    \E servers \in SetupServerLists :
    \E images \in SUBSET {servers[k].name : k \in DOMAIN servers} :
        InitEnvironment("runtime_setup", servers, images)

\* Lines 69-72: the loop is entered.
Setup_Enter ==
    /\ pc = "call"
    /\ call.fn = "runtime_setup"
    /\ call' = [call EXCEPT !.i = 1]
    /\ pc' = "try"
    /\ UNCHANGED <<topology, facts, vuln_properties_seen, warnings,
                   subnet_hosts, external_subnets, conn_i, document>>

\* Lines 73-80: one attempt.  run_playbook returns and the loop is left, or
\* it raises and errors is incremented.
Setup_Try ==
    /\ pc = "try"
    /\ call.i <= install_trials
    /\ \E ok \in BOOLEAN :
          /\ call' = [call EXCEPT
                         !.log = @ \o <<Request("install", attacker, ok)>>,
                         !.errors = IF ok THEN @ ELSE @ + 1,
                         !.j = 1]
          /\ pc' = IF ok THEN "after_loop" ELSE "except"
    /\ UNCHANGED <<topology, facts, vuln_properties_seen, warnings,
                   subnet_hosts, external_subnets, conn_i, document>>

\* Faulty variant of Setup_Reload: the servers are not looked at after a
\* failed attempt.
Setup_Reload_skipped ==
    /\ pc = "except"
    /\ call.j <= Len(call.servers)
    /\ call' = [call EXCEPT !.j = @ + 1]
    /\ pc' = "except"
    /\ UNCHANGED <<topology, facts, vuln_properties_seen, warnings,
                   subnet_hosts, external_subnets, conn_i, document>>

\* Lines 84-87: one iteration of "for host in hosts" in the handler.  An
\* exception of load_snapshot leaves runtime_setup.
Setup_Reload ==
    /\ pc = "except"
    /\ call.j <= Len(call.servers)
    /\ LET host == call.servers[call.j]
       IN  IF Contains(host.name, attacker)
           THEN \E out \in load_snapshot(call.images, host) :
                   /\ call' = [call EXCEPT !.log = @ \o out.log,
                                           !.raised = out.raised,
                                           !.j = @ + 1]
                   /\ pc' = IF out.raised = "no" THEN "except" ELSE "raised"
           ELSE /\ call' = [call EXCEPT !.j = @ + 1]
                /\ pc' = "except"
    /\ UNCHANGED <<topology, facts, vuln_properties_seen, warnings,
                   subnet_hosts, external_subnets, conn_i, document>>

\* The handler is done: the next iteration of the loop, or its end.
Setup_NextTrial ==
    /\ pc = "except"
    /\ call.j > Len(call.servers)
    /\ call' = [call EXCEPT !.i = @ + 1]
    /\ pc' = IF call.i + 1 <= install_trials THEN "try" ELSE "after_loop"
    /\ UNCHANGED <<topology, facts, vuln_properties_seen, warnings,
                   subnet_hosts, external_subnets, conn_i, document>>

\* Lines 89-92.
Setup_Finish ==
    /\ pc = "after_loop"
    /\ call.fn = "runtime_setup"
    /\ IF call.errors = install_trials
       THEN /\ call' = [call EXCEPT !.raised = FailedToInstall]
            /\ pc' = "raised"
       ELSE /\ call' = call
            /\ pc' = "returned"
    /\ UNCHANGED <<topology, facts, vuln_properties_seen, warnings,
                   subnet_hosts, external_subnets, conn_i, document>>

NextSetup ==
    \/ Setup_Enter
    \/ Setup_Try
    \/ Setup_Reload
    \/ Setup_NextTrial
    \/ Setup_Finish

SpecSetup == InitSetup /\ [][NextSetup]_vars

(***************************************************************************)
(* C26.  runtime_setup makes three install attempts at most and none after *)
(* a successful one.  After each failed attempt it requests a rebuild of   *)
(* every listed server whose name contains attacker and that has a         *)
(* snapshot image, unless load_snapshot raises: that exception leaves      *)
(* runtime_setup at once.  It raises Failed to install attacker host       *)
(* exactly when three attempts failed and no reload raised.                *)
(***************************************************************************)
Requests(op) == SelectSeq(call.log, LAMBDA r : r.op = op)

Attempts == Len(Requests("install"))

FailedAttempts == Len(SelectSeq(call.log, LAMBDA r : r.op = "install" /\ ~r.ok))

SetupLeft == call.fn = "runtime_setup" /\ pc \in {"returned", "raised"}

AttackerServers ==
    {k \in DOMAIN call.servers : Contains(call.servers[k].name, attacker)}

NoInstallAfterSuccess ==
    \A a \in DOMAIN call.log : \A b \in DOMAIN call.log :
        (a < b /\ call.log[a].op = "install" /\ call.log[a].ok)
            => call.log[b].op # "install"

\* The claim as stated: a reload after each failed attempt, and the
\* exception if and only if three attempts failed.
C26_ThreeTrialsThenRaise ==
    SetupLeft =>
        /\ Attempts <= install_trials
        /\ NoInstallAfterSuccess
        /\ (\E k \in AttackerServers : call.servers[k].name \in call.images)
              => Len(Requests("rebuild")) >= FailedAttempts
        /\ call.raised = FailedToInstall <=> FailedAttempts = install_trials

C26_TrialsReloadsAndRaise ==
    call.fn = "runtime_setup" =>
        /\ Attempts <= install_trials
        /\ NoInstallAfterSuccess
        /\ \A r \in DOMAIN call.log :
              call.log[r].op = "rebuild" =>
                  /\ Contains(call.log[r].host, attacker)
                  /\ call.log[r].host \in call.images
        /\ (pc \in {"try", "after_loop", "returned"} \/ call.raised = FailedToInstall) =>
              Len(Requests("rebuild")) =
                  FailedAttempts * Cardinality({k \in AttackerServers :
                                                   call.servers[k].name \in call.images})
        /\ SetupLeft =>
              /\ call.raised = FailedToInstall <=>
                    (FailedAttempts = install_trials /\ call.raised # "AttributeError")
              /\ call.raised = "AttributeError" => FailedAttempts >= 1
              /\ pc = "returned" <=> call.raised = "no"
              /\ pc = "returned" => call.log[Len(call.log)].op = "install"
                                    /\ call.log[Len(call.log)].ok

\* Two attempts failed, each followed by the rebuild of two attacker
\* servers, and the third succeeded.
C26_Witness ==
    /\ SetupLeft
    /\ pc = "returned"
    /\ FailedAttempts = 2
    /\ Len(Requests("rebuild")) = 4

(***************************************************************************)
(* Environment.load_all_snapshots.  hosts_to_rebuild and hosts_to_restore  *)
(* hold indices into servers.  A server that rebuild_server was requested  *)
(* for is in status REBUILD until the rebuild is done.                     *)
(***************************************************************************)
rebuild_num == 10

MaxServers == 11   \* servers with a snapshot image that list_servers returns

ImageMissing == "Image does not exist"

\* The servers host_1 .. host_n.
PlainServers(n) == [k \in 1..n |-> Server(host_prefix \o IntToStr(k))]

\* Servers with an image, between a decoy without image (or nothing) and a
\* server without image, an attacker with image, or nothing.
InitSnapshots ==
    \E n \in {0, 2, MaxServers} :
    \E pre \in {<<>>, <<Server(decoy_1)>>} :
    \E post \in {<<>>, <<Server(web_0)>>, <<Server(kali_attacker)>>} :
        InitEnvironment("load_all_snapshots", pre \o PlainServers(n) \o post,
            {PlainServers(n)[k].name : k \in 1..n} \cup {kali_attacker})

InLoad(at) == call.fn = "load_all_snapshots" /\ pc = at

\* Line 222: list_servers.
Load_Enter ==
    /\ InLoad("call")
    /\ call' = [call EXCEPT !.j = 1]
    /\ pc' = "check"
    /\ UNCHANGED <<topology, facts, vuln_properties_seen, warnings,
                   subnet_hosts, external_subnets, conn_i, document>>

\* Lines 226-246, one iteration of "for host in hosts".  A failure of
\* delete_server is logged and the loop goes on.
Load_CheckImage ==
    /\ InLoad("check")
    /\ call.j <= Len(call.servers)
    /\ LET host == call.servers[call.j]
       IN  IF host.name \in call.images
           THEN /\ call' = [call EXCEPT !.hosts_to_rebuild = Append(@, call.j),
                                        !.j = @ + 1]
                /\ pc' = "check"
           ELSE IF StartsWith(host.name, decoy)
           THEN \E ok \in BOOLEAN :
                   /\ call' = [call EXCEPT
                                  !.log = Append(@, Request("delete", host.name, ok)),
                                  !.status[call.j] = IF ok THEN "DELETED" ELSE @,
                                  !.j = @ + 1]
                   /\ pc' = "check"
           ELSE /\ call' = [call EXCEPT !.raised = ImageMissing]
                /\ pc' = "raised"
    /\ UNCHANGED <<topology, facts, vuln_properties_seen, warnings,
                   subnet_hosts, external_subnets, conn_i, document>>

\* The first loop is done; line 250 starts at i = 0.
Load_Checked ==
    /\ InLoad("check")
    /\ call.j > Len(call.servers)
    /\ call' = [call EXCEPT !.i = 0]
    /\ pc' = "batch"
    /\ UNCHANGED <<topology, facts, vuln_properties_seen, warnings,
                   subnet_hosts, external_subnets, conn_i, document>>

\* Lines 250-255: the slice of the next batch.
Load_StartBatch ==
    /\ InLoad("batch")
    /\ call.i < Len(call.hosts_to_rebuild)
    /\ LET n == Len(call.hosts_to_rebuild)
           last == IF call.i + 5 < n
                   THEN (IF call.i + rebuild_num < n THEN call.i + rebuild_num ELSE n)
                   ELSE n
       IN  call' = [call EXCEPT
                       !.hosts_to_restore = SubSeq(call.hosts_to_rebuild, call.i + 1, last),
                       !.j = 1]
    /\ pc' = "restore"
    /\ UNCHANGED <<topology, facts, vuln_properties_seen, warnings,
                   subnet_hosts, external_subnets, conn_i, document>>

\* Lines 258-259, one iteration: load_snapshot(host, wait=False).
Load_Restore ==
    /\ InLoad("restore")
    /\ call.j <= Len(call.hosts_to_restore)
    /\ LET k == call.hosts_to_restore[call.j]
       IN  \E out \in load_snapshot(call.images, call.servers[k]) :
              /\ call' = [call EXCEPT
                             !.log = @ \o out.log,
                             !.raised = out.raised,
                             !.status[k] = IF out.log # <<>> THEN "REBUILD" ELSE @,
                             !.j = @ + 1]
              /\ pc' = IF out.raised = "no" THEN "restore" ELSE "raised"
    /\ UNCHANGED <<topology, facts, vuln_properties_seen, warnings,
                   subnet_hosts, external_subnets, conn_i, document>>

\* Lines 262-267: the batch is requested; a pass over its servers begins.
Load_StartPass ==
    /\ \/ InLoad("restore") /\ call.j > Len(call.hosts_to_restore)
       \/ InLoad("wait") /\ call.j > Len(call.hosts_to_restore)
                         /\ call.waiting_for_rebuild
    /\ call' = [call EXCEPT !.waiting_for_rebuild = FALSE, !.j = 1]
    /\ pc' = "wait"
    /\ UNCHANGED <<topology, facts, vuln_properties_seen, warnings,
                   subnet_hosts, external_subnets, conn_i, document>>

\* Lines 268-271, one iteration: get_server_by_id and its status.
Load_Poll ==
    /\ InLoad("wait")
    /\ call.j <= Len(call.hosts_to_restore)
    /\ LET k == call.hosts_to_restore[call.j]
       IN  call' = [call EXCEPT
                       !.waiting_for_rebuild = @ \/ call.status[k] = "REBUILD",
                       !.j = @ + 1]
    /\ pc' = "wait"
    /\ UNCHANGED <<topology, facts, vuln_properties_seen, warnings,
                   subnet_hosts, external_subnets, conn_i, document>>

\* Faulty variant of Load_EndBatch: the result of the pass is not looked at.
Load_EndBatch_no_wait ==
    /\ InLoad("wait")
    /\ call.j > Len(call.hosts_to_restore)
    /\ call' = [call EXCEPT !.i = @ + rebuild_num, !.waiting_for_rebuild = FALSE]
    /\ pc' = "batch"
    /\ UNCHANGED <<topology, facts, vuln_properties_seen, warnings,
                   subnet_hosts, external_subnets, conn_i, document>>

\* Line 266: a pass that saw no server in REBUILD ends the while loop, and
\* the for loop of line 250 goes on.
Load_EndBatch ==
    /\ InLoad("wait")
    /\ call.j > Len(call.hosts_to_restore)
    /\ ~call.waiting_for_rebuild
    /\ call' = [call EXCEPT !.i = @ + rebuild_num]
    /\ pc' = "batch"
    /\ UNCHANGED <<topology, facts, vuln_properties_seen, warnings,
                   subnet_hosts, external_subnets, conn_i, document>>

\* Lines 275-281: the attacker servers are rebooted, and the method returns.
Load_Reboot ==
    /\ InLoad("batch")
    /\ call.i >= Len(call.hosts_to_rebuild)
    /\ LET Attacker(server) == Contains(server.name, attacker)
           Reboot(server) == Request("reboot", server.name, TRUE)
           rebooted == SelectSeq(call.servers, Attacker)
       IN  call' = [call EXCEPT
                       !.log = @ \o [r \in DOMAIN rebooted |-> Reboot(rebooted[r])]]
    /\ pc' = "returned"
    /\ UNCHANGED <<topology, facts, vuln_properties_seen, warnings,
                   subnet_hosts, external_subnets, conn_i, document>>

\* OpenStack: the rebuild of a server is done.
Server_Rebuilt ==
    /\ call.fn = "load_all_snapshots"
    /\ pc \notin {"returned", "raised"}
    /\ \E k \in DOMAIN call.status :
          /\ call.status[k] = "REBUILD"
          /\ call' = [call EXCEPT !.status[k] = "ACTIVE"]
    /\ UNCHANGED <<topology, pc, facts, vuln_properties_seen, warnings,
                   subnet_hosts, external_subnets, conn_i, document>>

NextSnapshots ==
    \/ Load_Enter
    \/ Load_CheckImage
    \/ Load_Checked
    \/ Load_StartBatch
    \/ Load_Restore
    \/ Load_StartPass
    \/ Load_Poll
    \/ Load_EndBatch
    \/ Load_Reboot
    \/ Server_Rebuilt

SpecSnapshots == InitSnapshots /\ [][NextSnapshots]_vars

(***************************************************************************)
(* C27.  load_all_snapshots: when it returns, every listed server with a   *)
(* snapshot image has received exactly one rebuild request (never more     *)
(* than one before); a batch holds 10 servers at most, and while a batch   *)
(* is being requested no server of an earlier batch is in status REBUILD;  *)
(* when a server that is no decoy has no image the method raises and no    *)
(* rebuild request has been made; a decoy without image gets one delete    *)
(* request when the method returns, and never a rebuild request.           *)
(***************************************************************************)
RequestsFor(op, name) ==
    Cardinality({r \in DOMAIN call.log :
                    call.log[r].op = op /\ call.log[r].host = name})

ServerNames == {call.servers[k].name : k \in DOMAIN call.servers}

InRebuild == {k \in DOMAIN call.status : call.status[k] = "REBUILD"}

RootLikeNames == SeqsUpTo({"r", "o", "t", "_"}, MaxNameLen) \cup {root}

InitSuperuser ==
    \E u \in RootLikeNames, h \in RootLikeNames :
        InitCall("_namespace_username", <<u, h, root, h>>)

SpecSuperuser == InitSuperuser /\ [][NextNamespace]_vars

(***************************************************************************)
(* C28.  _namespace_username returns root for no username other than root, *)
(* whatever the host name is, and the atom _prolog_atom makes of its       *)
(* result is root only then: the principal root in a fact stands for a raw *)
(* username root (given or taken by default).                              *)
(***************************************************************************)
C28_OnlyRootIsRoot ==
    Returned("_namespace_username") =>
        /\ call.ret[1] = root <=> call.args[1] = root
        /\ _prolog_atom(call.ret[1]) = root <=> call.args[1] = root
        /\ call.ret[2] = root

\* The username ro on the host ot: ro_ot.
C28_Witness ==
    /\ Returned("_namespace_username")
    /\ call.args[1] = <<"r", "o">>
    /\ call.args[2] = <<"o", "t">>
    /\ call.ret[1] = <<"r", "o", "_", "o", "t">>

(***************************************************************************)
(* C29.  _prolog_atom is injective: the atom returned for a name is        *)
(* returned for no other name, the empty name and names with quote         *)
(* characters included.                                                    *)
(***************************************************************************)
C29_AtomInjective ==
    Returned("_prolog_atom") =>
        \A other \in SeqsUpTo(NameChars, MaxNameLen) :
            other # call.args[1] => _prolog_atom(other) # call.ret

\* The name made of two quotes, which is the atom of the empty name, gets
\* an atom of four quotes.
C29_Witness ==
    /\ Returned("_prolog_atom")
    /\ call.args[1] = <<"'", "'">>
    /\ call.args[1] = _prolog_atom(<<>>)
    /\ call.ret = <<"'", "'", "'", "'">>

(***************************************************************************)
(* Scenario topologies with an attacker_host, which is in no subnet, and   *)
(* one goal on a host of a subnet, on an unknown host or on the            *)
(* attacker_host.                                                          *)
(***************************************************************************)
AttackerHost ==
    [id |-> id_prefix \o attacker, name |-> attacker, users |-> <<>>,
     vulnerabilities |-> <<>>]

InitAttackerHost ==
    /\ \E layout \in HostLayouts, conns \in ConnLists, vuln \in VulnPool :
       \E goal \in GoalPool \cup {[target_host_id |-> AttackerHost.id,
                                   host_user |-> None]} :
       \E attacker_host \in {NoneHost, AttackerHost} :
           topology = [ScenarioTopology(layout, conns, <<goal>>, <<vuln>>) EXCEPT
                          !.attacker_host = attacker_host]
    /\ InitLocals

SpecAttackerHost == InitAttackerHost /\ [][Next]_vars

(***************************************************************************)
(* C30.  Every host atom of an attackGoal fact of the returned document is *)
(* the source and destination of a fact hacl(H, H, _, _) of the document:  *)
(* a goal is emitted only for a host of some subnet.  The exporter         *)
(* violates it for a goal that get_host_by_id resolves to attacker_host.   *)
(***************************************************************************)
\* The goals of the topology that resolve to a host.
GoalHosts ==
    {get_host_by_id(topology, topology.goals[g].target_host_id) :
        g \in {x \in DOMAIN topology.goals : GoalResolves(topology, topology.goals[x])}}

C30_GoalHostsSelfReachable ==
    Done =>
        /\ \A h \in GoalHosts : HaclLine(Atom(h), Atom(h)) \in FactSet
        /\ \A f \in FactSet :
              IsAttackGoal(f) =>
                  \E h \in HostSet :
                      /\ StartsWith(f, attackGoal_open \o Atom(h) \o comma_space)
                      /\ HaclLine(Atom(h), Atom(h)) \in FactSet
====
